---- MODULE Spec2Model ----
(***************************************************************************)
(* docrip: discovery of block-device volumes, read-only mounting, and the *)
(* concurrent per-volume pipeline mount -> archive -> transfer -> umount  *)
(* driven by run_plan; make_chunks' archive pipeline and the files it      *)
(* leaves in the output directory, step by step.                           *)
(*                                                                         *)
(* Strings the program inspects character by character (device names,     *)
(* paths, per-volume names) are sequences of one-character strings; the    *)
(* prefix "/dev/" is the single token DEV.                                 *)
(***************************************************************************)
EXTENDS Integers, Sequences, FiniteSets, TLC

\* ------------------------------------------------------------------ bounds
\* Sizes are whole GiB, 0..MaxSizeGb.
MaxSizeGb == 2
\* Processing units the host may report (os.cpu_count()), 1..MaxCpu.
MaxCpu == 4
\* The compressed stream has 1..MaxStream bytes.
MaxStream == 3
\* cfg.chunk_size_mb is 0 (one archive file) or up to MaxChunk.
MaxChunk == 2

\* ------------------------------------------------------------ text helpers
DEV == "/dev/"
\* Python's None where a string is expected; like "", it is falsy.
NoStr == <<>>
Digits == <<"0", "1", "2", "3", "4", "5", "6", "7", "8", "9">>
Letters == <<"a", "b", "c", "d", "e", "f", "g", "h", "i", "j", "k", "l", "m",
             "n", "o", "p", "q", "r", "s", "t", "u", "v", "w", "x", "y", "z">>
IsDigit(c) == \E i \in 1..Len(Digits) : Digits[i] = c
IsLower(c) == \E i \in 1..Len(Letters) : Letters[i] = c
DigitVal(c) == (CHOOSE i \in 1..Len(Digits) : Digits[i] = c) - 1
\* Code point order of the characters that occur in device paths.
Ord(c) == IF c = "\n" THEN 0
          ELSE IF c = DEV THEN 1
          ELSE IF IsDigit(c) THEN 2 + DigitVal(c)
          ELSE IF IsLower(c) THEN 20 + (CHOOSE i \in 1..Len(Letters) : Letters[i] = c)
          ELSE 100

RECURSIVE StrLess(_, _)
\* Python's str < str: lexicographic by code point, a proper prefix is smaller.
StrLess(a, b) ==
    IF b = <<>> THEN FALSE
    ELSE IF a = <<>> THEN TRUE
    ELSE IF Head(a) # Head(b) THEN Ord(Head(a)) < Ord(Head(b))
    ELSE StrLess(Tail(a), Tail(b))

RECURSIVE IntStr(_)
\* str(int) for a natural number: its decimal digits.
IntStr(n) == IF n < 10 THEN <<Digits[n + 1]>>
             ELSE IntStr(n \div 10) \o <<Digits[(n % 10) + 1]>>

RECURSIVE DigitsVal(_)
\* int(s) for a string of decimal digits.
DigitsVal(s) == IF s = <<>> THEN 0
                ELSE 10 * DigitsVal(SubSeq(s, 1, Len(s) - 1)) + DigitVal(s[Len(s)])

RECURSIVE TrailingDigits(_)
\* The match of (\d+)$ : the longest all-digit suffix (empty: no match).
TrailingDigits(s) ==
    IF s = <<>> \/ ~IsDigit(s[Len(s)]) THEN <<>>
    ELSE TrailingDigits(SubSeq(s, 1, Len(s) - 1)) \o <<s[Len(s)]>>

RECURSIVE LowerPrefix(_)
\* The longest prefix of lower-case letters: what [a-z]+ consumes greedily.
LowerPrefix(s) ==
    IF s = <<>> \/ ~IsLower(Head(s)) THEN <<>>
    ELSE <<Head(s)>> \o LowerPrefix(Tail(s))

DevPath(kname) == <<DEV>> \o kname
StartsWithDev(s) == s # <<>> /\ Head(s) = DEV
\* Path(p).name of a /dev/<name> path.
BaseName(p) == Tail(p)

\* --------------------------------------------------------------- the host
\* The block devices lsblk reports: two disks with one partition each, and
\* the md array md1, listed under each partition that is a member of it.
Nodes == {"sda", "sda1", "sdb", "sdb1", "md1"}
BlockDevices == <<"sda", "sdb">>
KName == [sda |-> <<"s", "d", "a">>, sda1 |-> <<"s", "d", "a", "1">>,
          sdb |-> <<"s", "d", "b">>, sdb1 |-> <<"s", "d", "b", "1">>,
          md1 |-> <<"m", "d", "1">>]
\* PKNAME as lsblk prints it for a device named on its command line: a
\* partition's whole disk; empty for a disk and for a device-mapper or md
\* device (its slaves are listed only with --inverse).
PkName == [sda |-> <<>>, sda1 |-> KName["sda"], sdb |-> <<>>,
           sdb1 |-> KName["sdb"], md1 |-> <<>>]
NodePath(n) == DevPath(KName[n])
HasNode(p) == \E n \in Nodes : NodePath(n) = p
NodeOf(p) == CHOOSE n \in Nodes : NodePath(n) = p

VARIABLES
    lsblk,      \* lsblk -J: [rc, json] and what it reports, [fstype, size : Nodes -> ...]
                \* and members, the partitions md1 is listed under, and
                \* mdtype, the type it reports for md1
    findmnt,    \* findmnt -no SOURCE <mp>, for "/", "/cdrom", "/isodevice"
    blkid,      \* blkid -o export <dev>, per node: [rc, TYPE, LABEL, APFS_FEATURES]
    host,       \* [cpu, apfs_fuse]: processing units, apfs-fuse installed
    cfg,        \* the resolved Config
    args        \* run_plan's arguments: [only, list_only, workers_override, dry]

envVars == <<lsblk, findmnt, blkid, host, cfg, args>>

\* node["type"]: the type of an md array is its RAID level.
NodeType ==
    [n \in Nodes |-> IF n \in {"sda", "sdb"} THEN "disk"
                     ELSE IF n = "md1" THEN lsblk.mdtype
                     ELSE "part"]
\* node["children"]: lsblk -J repeats a device under each of its parents.
Children ==
    [n \in Nodes |-> IF n = "sda" THEN <<"sda1">>
                     ELSE IF n = "sdb" THEN <<"sdb1">>
                     ELSE IF n \in lsblk.members THEN <<"md1">>
                     ELSE <<>>]

VARIABLES
    hostid,     \* what host_identifier reads: /etc/machine-id, the DMI product
                \* UUID and the node name
    sha8,       \* the first 8 bytes of sha256, for each string the host can hash
    tk,         \* derive_token in progress, and the token returned before it
    fnd,        \* the find(1) run of build_find_cmd: [pc, tree, max_mb, i, out]
    links,      \* the parent links lsblk reports for pk_disk_of's device
    pkd         \* pk_disk_of's frame: [pc, cur, seen, i, t, ret]

utilVars == <<hostid, sha8, tk, fnd, links, pkd>>

\* ---------------------------------------------------------------- layers.py
RECURSIVE Descendants(_)
\* The nodes lsblk prints under a device named on its command line, in order.
Descendants(n) ==
    LET F[i \in 0..Len(Children[n])] ==
            IF i = 0 THEN <<>>
            ELSE F[i - 1] \o <<Children[n][i]>> \o Descendants(Children[n][i])
    IN F[Len(Children[n])]

\* out.split() of `lsblk -no TYPE,PKNAME <dev>`: one line per printed node,
\* an empty PKNAME column contributing no token. A token is a string: a
\* TYPE word is the one-element string of that word.
RECURSIVE TypePkTokens(_)
TypePkTokens(ns) ==
    IF ns = <<>> THEN <<>>
    ELSE <<(<<NodeType[Head(ns)]>>)>>
         \o (IF PkName[Head(ns)] = <<>> THEN <<>> ELSE <<PkName[Head(ns)]>>)
         \o TypePkTokens(Tail(ns))

\* out2.strip() of `lsblk -no NAME <dev>`: the device's name, followed by one
\* tree-drawn line per dependent device that lsblk prints below it.
RECURSIVE NameLines(_)
NameLines(ns) ==
    IF ns = <<>> THEN <<>>
    ELSE <<"\n", "|-">> \o KName[Head(ns)] \o NameLines(Tail(ns))
LsblkName(n) == KName[n] \o NameLines(Descendants(n))

HopLimit == 8

RECURSIVE pk_walk(_, _, _)
\* One iteration of pk_disk_of's loop with `hops' iterations left.
pk_walk(cur, seen, hops) ==
    IF hops = 0 THEN NoStr
    ELSE IF ~HasNode(cur) THEN NoStr                      \* rc != 0: break
    ELSE LET n == NodeOf(cur)
             toks == TypePkTokens(<<n>> \o Descendants(n)) \o <<NoStr, NoStr>>
             t == toks[1]
             pk == toks[2]
         IN IF t = <<"disk">> THEN DevPath(LsblkName(n))
            ELSE IF pk = NoStr \/ pk \in seen THEN NoStr
            ELSE pk_walk(DevPath(pk), seen \cup {pk}, hops - 1)

pk_disk_of(dev) == pk_walk(dev, {}, HopLimit)

\* -------------------------------------------------------------- discover.py
\* str.lower() and the substring test `sub in s' on the words lsblk and blkid
\* report in the model's hosts.
Lower(s) == CASE s = "crypto_LUKS" -> "crypto_luks"
              [] s = "BitLocker" -> "bitlocker"
              [] s = "FVE-FS" -> "fve-fs"
              [] s = "VeraCrypt" -> "veracrypt"
              [] s = "Encrypted" -> "encrypted"
              [] OTHER -> s
Contains(sub, s) ==
    \/ sub = s
    \/ sub = "fve" /\ s = "fve-fs"

\* The root device, its [a-z]+ prefix, and the live-media mountpoint devices.
find_boot_devices ==
    LET root == findmnt["/"]
        src == root.out
        m == LowerPrefix(Tail(src))
        rootSet == IF root.rc = 0 /\ StartsWithDev(src)
                   THEN {src} \cup (IF m # <<>> THEN {DevPath(m)} ELSE {})
                   ELSE {}
        media == {findmnt[mp].out : mp \in {q \in {"/cdrom", "/isodevice"} :
                      findmnt[q].rc = 0 /\ StartsWithDev(findmnt[q].out)}}
    IN rootSet \cup media

is_encrypted(dev, fstype) ==
    IF fstype = "crypto_LUKS" THEN TRUE
    ELSE LET b == blkid[NodeOf(dev)]
             t == IF b.rc = 0 THEN Lower(b.TYPE) ELSE ""
             label == IF b.rc = 0 THEN Lower(b.LABEL) ELSE ""
             feat == IF b.rc = 0 THEN Lower(b.APFS_FEATURES) ELSE ""
         IN \/ Contains("crypto_luks", t)
            \/ Contains("bitlocker", t) \/ Contains("bitlocker", label)
            \/ Contains("fve", label)
            \/ t = "apfs" /\ Contains("encrypted", feat)
            \/ Contains("veracrypt", label) \/ Contains("truecrypt", label)

\* disks_index: each top-level disk's position in the sorted list of disk paths.
DiskPaths == {NodePath(BlockDevices[i]) : i \in {j \in 1..Len(BlockDevices) :
                  NodeType[BlockDevices[j]] = "disk"}}
build_disk_index(dev) == Cardinality({d \in DiskPaths : StrLess(d, dev)})
disks_index_get(dev) == IF dev \in DiskPaths THEN build_disk_index(dev) ELSE 0

Consider == {"part", "lvm", "raid0", "raid1", "raid10", "crypt", "rom"}

\* The Volume walk() appends for a node (skip_reason still unset).
MakeVolume(n) ==
    LET path == NodePath(n)
        kname == KName[n]
        fstype == Lower(lsblk.fstype[n])
        t == NodeType[n]
        pk == pk_disk_of(path)
        parent_disk == IF pk # NoStr THEN pk
                       ELSE IF t = "disk" THEN DevPath(kname) ELSE NoStr
        m == TrailingDigits(kname)
    IN [path |-> path, kname |-> kname, fstype |-> fstype,
        size_bytes |-> lsblk.size[n], type |-> t,
        encrypted |-> IF cfg.skip_if_encrypted THEN is_encrypted(path, fstype)
                      ELSE FALSE,
        diskno |-> disks_index_get(parent_disk),
        partno |-> IF m # <<>> THEN DigitsVal(m) ELSE 0,
        skip_reason |-> NoStr]

IsCandidate(n) ==
    NodeType[n] \in Consider \/ (NodeType[n] = "disk" /\ Lower(lsblk.fstype[n]) # "")

RECURSIVE walk(_)
walk(n) ==
    LET W[i \in 0..Len(Children[n])] ==
            IF i = 0 THEN <<>> ELSE W[i - 1] \o walk(Children[n][i])
    IN (IF IsCandidate(n) THEN <<MakeVolume(n)>> ELSE <<>>) \o W[Len(Children[n])]

WalkAll ==
    LET W[i \in 0..Len(BlockDevices)] ==
            IF i = 0 THEN <<>> ELSE W[i - 1] \o walk(BlockDevices[i])
    IN W[Len(BlockDevices)]

\* Mutant of SkipReason: the filter pass without its encryption rule.
SkipReason_NoEncrypted(v, exclude) ==
    IF v.path \in exclude \/ BaseName(v.path) \in cfg.avoid_devices
        THEN <<"boot/avoid">>
    ELSE IF v.fstype \in cfg.skip_fstypes
        THEN <<"skip_fstype:", v.fstype>>
    ELSE IF cfg.include_fstypes # {} /\ v.fstype \notin cfg.include_fstypes
        THEN <<"unsupported_fstype:", v.fstype>>
    ELSE IF v.size_bytes < cfg.min_partition_size_gb
        THEN <<"too_small<">> \o IntStr(cfg.min_partition_size_gb) \o <<"G">>
    ELSE NoStr

\* Mutant of SkipReason: the size rule is tried before the encryption rule.
SkipReason_SizeFirst(v, exclude) ==
    IF v.path \in exclude \/ BaseName(v.path) \in cfg.avoid_devices
        THEN <<"boot/avoid">>
    ELSE IF v.fstype \in cfg.skip_fstypes
        THEN <<"skip_fstype:", v.fstype>>
    ELSE IF cfg.include_fstypes # {} /\ v.fstype \notin cfg.include_fstypes
        THEN <<"unsupported_fstype:", v.fstype>>
    ELSE IF v.size_bytes < cfg.min_partition_size_gb
        THEN <<"too_small<">> \o IntStr(cfg.min_partition_size_gb) \o <<"G">>
    ELSE IF cfg.skip_if_encrypted /\ v.encrypted
        THEN <<"encrypted">>
    ELSE NoStr

\* The filter pass of collect_volumes: the first matching rule's reason.
\* size_bytes and min_bytes are both counted in GiB.
SkipReason(v, exclude) ==
    IF v.path \in exclude \/ BaseName(v.path) \in cfg.avoid_devices
        THEN <<"boot/avoid">>
    ELSE IF v.fstype \in cfg.skip_fstypes
        THEN <<"skip_fstype:", v.fstype>>
    ELSE IF cfg.include_fstypes # {} /\ v.fstype \notin cfg.include_fstypes
        THEN <<"unsupported_fstype:", v.fstype>>
    ELSE IF cfg.skip_if_encrypted /\ v.encrypted
        THEN <<"encrypted">>
    ELSE IF v.size_bytes < cfg.min_partition_size_gb
        THEN <<"too_small<">> \o IntStr(cfg.min_partition_size_gb) \o <<"G">>
    ELSE NoStr

collect_volumes ==
    LET exclude == find_boot_devices
        w == WalkAll
    IN [i \in 1..Len(w) |-> [w[i] EXCEPT !.skip_reason = SkipReason(w[i], exclude)]]

\* Mutant of ApplyOnly: the pass overwrites an earlier reason.
ApplyOnly_Overwrite(v) ==
    IF args.only # {} /\ v.path \notin args.only
    THEN [v EXCEPT !.skip_reason = <<"not_in_only">>]
    ELSE v

\* run_plan's --only pass over one volume.
ApplyOnly(v) ==
    IF args.only # {} /\ v.path \notin args.only
    THEN [v EXCEPT !.skip_reason = IF v.skip_reason # NoStr THEN v.skip_reason
                                   ELSE <<"not_in_only">>]
    ELSE v

\* --------------------------------------------------------------- mounter.py
NoRecipe == [tool |-> "", t |-> "", opts |-> <<>>, flags |-> <<>>]
MountCmd(t, opts) == [tool |-> "mount", t |-> t, opts |-> opts, flags |-> <<>>]
\* Mutant of NtfsRecipe: the ntfs-3g options without ro.
NtfsRecipe_NoRo ==
    [tool |-> "ntfs-3g", t |-> "", opts |-> <<"nodev", "nosuid", "noexec">>,
     flags |-> <<>>]
\* Line 42: ntfs goes through the fuse-backed ntfs-3g.
NtfsRecipe ==
    [tool |-> "ntfs-3g", t |-> "", opts |-> <<"ro", "nodev", "nosuid", "noexec">>,
     flags |-> <<>>]
\* The command mount_ro builds for a filesystem type (without the device and
\* mountpoint arguments); NoRecipe where it returns False without a command.
\* The -o argument is the sequence of its comma-separated options.
Recipe(fs) ==
    IF fs \in {"ext2", "ext3", "ext4"}
        THEN MountCmd("ext4", <<"ro", "noload", "nodev", "nosuid", "noexec">>)
    ELSE IF fs = "xfs"
        THEN MountCmd("xfs", <<"ro", "norecovery", "nodev", "nosuid", "noexec">>)
    ELSE IF fs = "btrfs"
        THEN MountCmd("btrfs", <<"ro", "nodev", "nosuid", "noexec">>)
    ELSE IF fs = "ntfs"
        THEN NtfsRecipe
    ELSE IF fs = "vfat"
        THEN MountCmd("vfat", <<"ro", "uid=0", "gid=0", "umask=022",
                                "nodev", "nosuid", "noexec">>)
    ELSE IF fs = "exfat"
        THEN MountCmd("exfat", <<"ro", "nodev", "nosuid", "noexec">>)
    ELSE IF fs = "hfs"
        THEN MountCmd("hfs", <<"ro", "nodev", "nosuid", "noexec">>)
    ELSE IF fs = "hfsplus"
        THEN MountCmd("hfsplus", <<"ro", "force", "nodev", "nosuid", "noexec">>)
    ELSE IF fs = "apfs"
        THEN IF host.apfs_fuse
             THEN [tool |-> "apfs-fuse", t |-> "", opts |-> <<>>,
                   flags |-> <<"--readonly">>]
             ELSE NoRecipe
    ELSE NoRecipe                                   \* zfs, and every other type

\* ------------------------------------------------------------------ util.py
clamp(lo, x, hi) ==
    LET m == IF x < hi THEN x ELSE hi IN IF lo > m THEN lo ELSE m

\* The alphabet of base36_digest5, least digit first.
Chars == <<"0", "1", "2", "3", "4", "5", "6", "7", "8", "9", "a", "b", "c",
           "d", "e", "f", "g", "h", "i", "j", "k", "l", "m", "n", "o", "p",
           "q", "r", "s", "t", "u", "v", "w", "x", "y", "z">>
\* n // 36 and n % 36 of an integer held as its big-endian bytes: long
\* division, the remainder of the bytes before coming in as carry.
RECURSIVE DivMod36(_, _)
DivMod36(bytes, carry) ==
    IF bytes = <<>> THEN [q |-> <<>>, r |-> carry]
    ELSE LET cur == carry * 256 + Head(bytes)
             rest == DivMod36(Tail(bytes), cur % Len(Chars))
         IN [q |-> <<cur \div Len(Chars)>> \o rest.q, r |-> rest.r]
\* "".join(out)[:5]
Take5_All(out) == out
Take5(out) == SubSeq(out, 1, IF Len(out) < 5 THEN Len(out) ELSE 5)

\* A file host_identifier reads: its text, or no text when the read raises.
Unreadable == [ok |-> FALSE, text |-> ""]
Text(s) == [ok |-> TRUE, text |-> s]
\* host_identifier(prefer): the first of the two files that reads as a
\* non-empty text when machine-id is preferred, the node name otherwise.
host_identifier(prefer) ==
    IF prefer = "machine-id" /\ hostid.machine_id.ok /\ hostid.machine_id.text # ""
    THEN hostid.machine_id.text
    ELSE IF prefer = "machine-id" /\ hostid.product_uuid.ok
            /\ hostid.product_uuid.text # ""
    THEN hostid.product_uuid.text
    ELSE hostid.nodename

\* ---------------------------------------------------------- orchestrator.py
\* The ceiling auto_workers passes to clamp.
MaxWorkers == 8
auto_workers(explicit) ==
    IF explicit > 0 THEN explicit ELSE clamp(1, host.cpu \div 2, MaxWorkers)

\* A naming pattern is the sequence of its pieces, each a literal or a
\* replacement field; the default is "{date}_{token}_d{disk}_p{part}".
Lit(s) == [field |-> FALSE, s |-> s]
Fld(s) == [field |-> TRUE, s |-> s]
DefaultPattern == <<Fld("date"), Lit("_"), Fld("token"), Lit("_"), Lit("d"),
                    Fld("disk"), Lit("_"), Lit("p"), Fld("part")>>
\* A pattern naming a field process_one does not pass to format().
HostPattern == <<Fld("date"), Lit("_"), Fld("host"), Lit("_"), Lit("d"),
                 Fld("disk"), Lit("_"), Lit("p"), Fld("part")>>
FormatKeys == {"date", "token", "disk", "part"}
\* str.format raises KeyError for a field that is not among the keywords.
FormatRaises(pattern) ==
    \E i \in 1..Len(pattern) : pattern[i].field /\ pattern[i].s \notin FormatKeys
RECURSIVE FormatName(_, _, _, _, _)
FormatName(pattern, date, token, disk, part) ==
    IF pattern = <<>> THEN <<>>
    ELSE LET p == Head(pattern)
             piece == IF ~p.field THEN <<p.s>>
                      ELSE IF p.s = "date" THEN <<date>>
                      ELSE IF p.s = "token" THEN <<token>>
                      ELSE IF p.s = "disk" THEN IntStr(disk)
                      ELSE IntStr(part)
         IN piece \o FormatName(Tail(pattern), date, token, disk, part)
DateStr == "20250101"
Token == "a1b2c"
MountPoint(name) == <<"/mnt/docrip/">> \o name
WorkRoot(name) == <<"spool/">> \o name

\* Mutant of SortLargestFirst: the volumes stay in discovery order.
SortLargestFirst_Unsorted(seq) == seq

\* to_process.sort(key=size_bytes, reverse=True): stable, largest first.
SortLargestFirst(seq) ==
    LET Before(i, j) == \/ seq[i].size_bytes > seq[j].size_bytes
                        \/ seq[i].size_bytes = seq[j].size_bytes /\ i < j
        Rank(i) == 1 + Cardinality({j \in 1..Len(seq) : Before(j, i)})
    IN [r \in 1..Len(seq) |-> seq[CHOOSE i \in 1..Len(seq) : Rank(i) = r]]

Eligible(vs) == SelectSeq(vs, LAMBDA v : v.skip_reason = NoStr)

VolumeResult(v, name, status, error) ==
    [device |-> v.path, fstype |-> v.fstype, size_bytes |-> v.size_bytes,
     name |-> name, mountpoint |-> MountPoint(name), status |-> status,
     error |-> error]

VARIABLES
    rpc,        \* where run_plan is
    vols,       \* collect_volumes' list, with skip reasons
    to_process, \* the eligible volumes, largest first
    workers,    \* the pool's max_workers
    tasks,      \* one process_one call per submitted volume
    results,    \* run_plan's result list, in completion order
    collected,  \* the futures as_completed has yielded
    summary,    \* the run summary written, <<>> until then
    rc,         \* run_plan's return value, -1 until it returns
    dirs,       \* the mountpoint directories that exist
    mounts,     \* per mountpoint, the stack of devices mounted on it
    cmds        \* every mount command mount_ro has issued

VARIABLE
    remote      \* the rsync destination: remote path -> the device whose build
                \* the file there comes from

progVars == <<rpc, vols, to_process, workers, tasks, results, collected,
              summary, rc, dirs, mounts, cmds, remote>>

VARIABLES
    stream,     \* the compressed stream the compressor emits for the mountpoint
    mc,         \* make_chunks' frame: [pc, ret, st, todo, open, whole]
    outdir,     \* the output directory: file name -> [data, partial, by]
    seen        \* what a concurrent reader of the directory last observed

chunkVars == <<stream, mc, outdir, seen>>
vars == <<envVars, progVars, chunkVars, utilVars>>

TaskIds == 1..Len(tasks)
Vol(i) == to_process[i]
Running(i) == tasks[i].pc \notin {"queued", "done"}
Logged(i, op, out) == [tasks EXCEPT ![i].log = Append(@, [op |-> op, out |-> out])]
MountStack(mp) == IF mp \in DOMAIN mounts THEN mounts[mp] ELSE <<>>
SetStack(mp, st) == [q \in DOMAIN mounts \cup {mp} |-> IF q = mp THEN st ELSE mounts[q]]
NewTask == [pc |-> "queued", name |-> <<>>, status |-> "ok", error |-> "",
            ret |-> "", log |-> <<>>]

\* ---- run_plan, up to the pool
\* Lines 119-130: the output directories are created unless dry or listing.
Prepare ==
    /\ rpc = "start"
    /\ IF ~args.dry /\ ~args.list_only
       THEN \E o \in {"ok", "PermissionError", "OSError"} :
               /\ rpc' = CASE o = "ok" -> "discover"
                           [] o = "PermissionError" -> "returned"
                           [] OTHER -> "raised"
               /\ rc' = IF o = "PermissionError" THEN 1 ELSE rc
       ELSE rpc' = "discover" /\ rc' = rc
    /\ UNCHANGED <<remote, utilVars, chunkVars, envVars, vols, to_process, workers, tasks, results, collected,
                   summary, dirs, mounts, cmds>>

\* Mutant of Discover: a failed listing counts as an empty one.
Discover_EmptyOnFailure ==
    /\ rpc = "discover"
    /\ rpc' = "only"
    /\ vols' = IF lsblk.rc # 0 \/ ~lsblk.json THEN <<>> ELSE collect_volumes
    /\ UNCHANGED <<remote, utilVars, chunkVars, envVars, to_process, workers, tasks, results, collected,
                   summary, rc, dirs, mounts, cmds>>

\* Lines 132-136: collect_volumes. lsblk_json raises RuntimeError when lsblk
\* exits non-zero or its output is not JSON.
Discover ==
    /\ rpc = "discover"
    /\ IF lsblk.rc # 0 \/ ~lsblk.json
       THEN rpc' = "raised" /\ vols' = vols
       ELSE rpc' = "only" /\ vols' = collect_volumes
    /\ UNCHANGED <<remote, utilVars, chunkVars, envVars, to_process, workers, tasks, results, collected,
                   summary, rc, dirs, mounts, cmds>>

\* Lines 138-146: the --only pass, then the listing returns 0.
OnlyPass ==
    /\ rpc = "only"
    /\ vols' = [i \in 1..Len(vols) |-> ApplyOnly(vols[i])]
    /\ IF args.list_only THEN rpc' = "returned" /\ rc' = 0
       ELSE rpc' = "select" /\ rc' = rc
    /\ UNCHANGED <<remote, utilVars, chunkVars, envVars, to_process, workers, tasks, results, collected,
                   summary, dirs, mounts, cmds>>

\* Lines 148-165: select, sort, size the pool, submit one task per volume.
Submit ==
    /\ rpc = "select"
    /\ to_process' = SortLargestFirst(Eligible(vols))
    /\ workers' = auto_workers(IF args.workers_override # {}
                               THEN CHOOSE w \in args.workers_override : TRUE
                               ELSE cfg.workers)
    /\ tasks' = [i \in 1..Len(to_process') |-> NewTask]
    /\ rpc' = "pool"
    /\ UNCHANGED <<remote, utilVars, chunkVars, envVars, vols, results, collected, summary, rc, dirs, mounts, cmds>>

\* Mutant of StartTask: a task starts as soon as it is submitted.
StartTask_Unbounded(i) ==
    /\ rpc \in {"pool", "unwind", "interrupted"}
    /\ tasks[i].pc = "queued"
    /\ \A j \in 1..(i - 1) : tasks[j].pc # "queued"
    /\ tasks' = [tasks EXCEPT ![i].pc = "name"]
    /\ UNCHANGED <<remote, utilVars, chunkVars, envVars, rpc, vols, to_process, workers, results, collected,
                   summary, rc, dirs, mounts, cmds>>

\* ---- the pool: ThreadPoolExecutor(max_workers=workers)
\* A worker takes the next queued task, in submission order. The pool keeps
\* running queued tasks while run_plan unwinds out of the with block.
StartTask(i) ==
    /\ rpc \in {"pool", "unwind", "interrupted"}
    /\ tasks[i].pc = "queued"
    /\ \A j \in 1..(i - 1) : tasks[j].pc # "queued"
    /\ Cardinality({j \in TaskIds : Running(j)}) < workers
    /\ tasks' = [tasks EXCEPT ![i].pc = "name"]
    /\ UNCHANGED <<remote, utilVars, chunkVars, envVars, rpc, vols, to_process, workers, results, collected,
                   summary, rc, dirs, mounts, cmds>>

\* ---- process_one
\* Lines 52-57, before the try: a KeyError from format() leaves the task.
DeriveName(i) ==
    /\ tasks[i].pc = "name"
    /\ IF FormatRaises(cfg.pattern)
       THEN tasks' = [Logged(i, "format", "raise") EXCEPT
                         ![i].pc = "done", ![i].ret = "raise", ![i].error = "KeyError"]
       ELSE tasks' = [tasks EXCEPT
                         ![i].pc = "mount",
                         ![i].name = FormatName(cfg.pattern, DateStr, Token,
                                                Vol(i).diskno, Vol(i).partno)]
    /\ UNCHANGED <<remote, utilVars, chunkVars, envVars, rpc, vols, to_process, workers, results, collected,
                   summary, rc, dirs, mounts, cmds>>

\* Mutant of AfterStage: an exception returns without the finally clause.
AfterStage_NoFinally(i, op, out, failStatus, nextPc) ==
    CASE out = "ok" ->
            [Logged(i, op, out) EXCEPT
                ![i].pc = nextPc,
                ![i].ret = IF nextPc = "umount" THEN "result" ELSE @]
      [] out = "fail" ->
            [Logged(i, op, out) EXCEPT
                ![i].pc = "umount", ![i].status = failStatus, ![i].ret = "result"]
      [] OTHER ->
            [Logged(i, op, "raise") EXCEPT
                ![i].pc = "done", ![i].status = "exception", ![i].ret = "result",
                ![i].error = out]

\* Mutant of AfterStage: a stage's False is recorded but the pipeline goes on.
AfterStage_IgnoreFail(i, op, out, failStatus, nextPc) ==
    CASE out \in {"ok", "fail"} ->
            [Logged(i, op, out) EXCEPT
                ![i].pc = nextPc,
                ![i].status = IF out = "fail" THEN failStatus ELSE @,
                ![i].ret = IF nextPc = "umount" THEN "result" ELSE @]
      [] OTHER ->
            [Logged(i, op, "raise") EXCEPT
                ![i].pc = "umount", ![i].status = "exception", ![i].ret = "result",
                ![i].error = out]

\* What a stage's outcome makes of the task: the next stage on success, else
\* the pending return (status set) with the finally clause still to run.
AfterStage(i, op, out, failStatus, nextPc) ==
    CASE out = "ok" ->
            [Logged(i, op, out) EXCEPT
                ![i].pc = nextPc,
                ![i].ret = IF nextPc = "umount" THEN "result" ELSE @]
      [] out = "fail" ->
            [Logged(i, op, out) EXCEPT
                ![i].pc = "umount", ![i].status = failStatus, ![i].ret = "result"]
      [] OTHER ->
            [Logged(i, op, "raise") EXCEPT
                ![i].pc = "umount", ![i].status = "exception", ![i].ret = "result",
                ![i].error = out]

\* mount_ro(v, mp, dry): its outcomes, and its effects on the mountpoint.
\* mkdir or the exec of the mount tool may raise; run() returns 0 when dry.
MountOutcomes(v) ==
    IF Recipe(v.fstype) = NoRecipe THEN {"fail", "OSError:mkdir"}
    ELSE IF args.dry THEN {"ok", "OSError:mkdir"}
    ELSE {"ok", "fail", "OSError:mkdir", "FileNotFoundError:exec"}

\* Lines 59-69.
MountStage(i) ==
    /\ tasks[i].pc = "mount"
    /\ LET v == Vol(i)
           mp == MountPoint(tasks[i].name)
           r == Recipe(v.fstype)
           cmd == [tool |-> r.tool, t |-> r.t, opts |-> r.opts, flags |-> r.flags,
                   src |-> v.path, mp |-> mp]
       IN \E out \in MountOutcomes(v) :
             /\ tasks' = AfterStage(i, "mount_ro", out, "mount_failed", "archive")
             /\ dirs' = IF out = "OSError:mkdir" THEN dirs ELSE dirs \cup {mp}
             /\ cmds' = IF out = "OSError:mkdir" \/ r = NoRecipe THEN cmds
                        ELSE cmds \cup {cmd}
             /\ mounts' = IF out = "ok" /\ ~args.dry
                          THEN SetStack(mp, Append(MountStack(mp), v.path))
                          ELSE mounts
    /\ UNCHANGED <<remote, utilVars, chunkVars, envVars, rpc, vols, to_process, workers, results, collected,
                   summary, rc>>

\* make_chunks(cfg, mp, work_root, ...): True, False (the pipeline's exit
\* status is not 0; never when dry) or an exception.
ChunkOutcomes == IF args.dry THEN {"ok", "OSError:mkdir"}
                 ELSE {"ok", "fail", "OSError:mkdir"}

\* Lines 70-83.
ArchiveStage(i) ==
    /\ tasks[i].pc = "archive"
    /\ \E out \in ChunkOutcomes :
          tasks' = AfterStage(i, "make_chunks", out, "chunk_failed", "transfer")
    /\ UNCHANGED <<remote, utilVars, chunkVars, envVars, rpc, vols, to_process, workers, results, collected,
                   summary, rc, dirs, mounts, cmds>>

\* The files make_chunks leaves in a work directory: the archive or its
\* chunks and their checksums, all named after the directory, and three
\* metadata files whose names are the same in every work directory.
ManifestPath == <<".manifest.json">>
PartsList == <<".parts">>
WholeSha == <<".whole.sha256">>
MetaFiles == {ManifestPath, PartsList, WholeSha}
WorkFiles(name) == {name \o <<".tar.">>} \cup MetaFiles
\* dest = f"{cfg.server_rsync_remote}/{date_str}/{token}/"
Dest == <<"remote/", DateStr, "/", Token, "/">>
\* rsync -r <local_dir>/ <dest>: every file of the work directory is written
\* at dest under its own name, over whatever is there.
Rsynced(i) ==
    LET name == tasks[i].name
        put == {Dest \o f : f \in WorkFiles(name)}
    IN [q \in DOMAIN remote \cup put |->
           IF q \in put THEN Vol(i).path ELSE remote[q]]

\* rsync_dir(cfg, work_root, date_str, token): rc == 0, or an exception.
RsyncOutcomes == IF args.dry THEN {"ok", "OSError:ensure_dir"}
                 ELSE {"ok", "fail", "OSError:ensure_dir"}

\* Mutant of TransferStage: the status stays ok whatever rsync_dir returned.
TransferStage_StatusOk(i) ==
    /\ tasks[i].pc = "transfer"
    /\ \E out \in RsyncOutcomes :
          /\ tasks' = AfterStage(i, "rsync_dir", out, "ok", "umount")
          /\ remote' = IF out = "ok" /\ ~args.dry THEN Rsynced(i) ELSE remote
    /\ UNCHANGED <<utilVars, chunkVars, envVars, rpc, vols, to_process, workers, results, collected,
                   summary, rc, dirs, mounts, cmds>>

\* Lines 84-94.
TransferStage(i) ==
    /\ tasks[i].pc = "transfer"
    /\ \E out \in RsyncOutcomes :
          /\ tasks' = AfterStage(i, "rsync_dir", out, "rsync_failed", "umount")
          /\ remote' = IF out = "ok" /\ ~args.dry THEN Rsynced(i) ELSE remote
    /\ UNCHANGED <<utilVars, chunkVars, envVars, rpc, vols, to_process, workers, results, collected,
                   summary, rc, dirs, mounts, cmds>>

\* umount(mp, dry): exists() or the exec of umount may raise; the lazy umount
\* detaches the topmost mount; rmdir fails silently on a busy mountpoint.
UmountOutcomes(mp) ==
    IF mp \in dirs /\ ~args.dry THEN {"ok", "FileNotFoundError:exec"}
    ELSE {"ok", "OSError:exists"}

\* Lines 108-109, the finally clause: an exception raised here replaces the
\* pending return.
UmountStage(i) ==
    /\ tasks[i].pc = "umount"
    /\ LET mp == MountPoint(tasks[i].name)
           st == MountStack(mp)
           left == IF st = <<>> \/ args.dry THEN st ELSE SubSeq(st, 1, Len(st) - 1)
       IN \E out \in UmountOutcomes(mp) :
             IF out = "ok"
             THEN /\ tasks' = [Logged(i, "umount", "ok") EXCEPT ![i].pc = "done"]
                  /\ mounts' = IF mp \in dirs THEN SetStack(mp, left) ELSE mounts
                  /\ dirs' = IF mp \in dirs /\ left = <<>> THEN dirs \ {mp} ELSE dirs
             ELSE /\ tasks' = [Logged(i, "umount", "raise") EXCEPT
                                  ![i].pc = "done", ![i].ret = "raise", ![i].error = out]
                  /\ UNCHANGED <<dirs, mounts>>
    /\ UNCHANGED <<remote, utilVars, chunkVars, envVars, rpc, vols, to_process, workers, results, collected,
                   summary, rc, cmds>>

\* ---- run_plan, from the pool on
\* Lines 166-167: as_completed yields a finished future; result() returns the
\* task's VolumeResult or re-raises what the task raised.
Collect(i) ==
    /\ rpc = "pool"
    /\ tasks[i].pc = "done"
    /\ i \notin collected
    /\ collected' = collected \cup {i}
    /\ IF tasks[i].ret = "raise"
       THEN rpc' = "unwind" /\ results' = results
       ELSE /\ rpc' = rpc
            /\ results' = Append(results, VolumeResult(Vol(i), tasks[i].name,
                                                       tasks[i].status, tasks[i].error))
    /\ UNCHANGED <<remote, utilVars, chunkVars, envVars, vols, to_process, workers, tasks, summary, rc,
                   dirs, mounts, cmds>>

\* Leaving the with block on an exception: shutdown(wait=True), then the
\* exception leaves run_plan.
Unwind ==
    /\ rpc = "unwind"
    /\ \A j \in TaskIds : tasks[j].pc = "done"
    /\ rpc' = "raised"
    /\ UNCHANGED <<remote, utilVars, chunkVars, envVars, vols, to_process, workers, tasks, results, collected,
                   summary, rc, dirs, mounts, cmds>>

\* Mutant of Interrupt: the process ends at once, its tasks with it.
Interrupt_NoWait ==
    /\ rpc \in {"pool", "unwind"}
    /\ \E i \in TaskIds : tasks[i].pc # "done"
    /\ rpc' = "aborted"
    /\ UNCHANGED <<remote, utilVars, chunkVars, envVars, vols, to_process, workers, tasks, results,
                   collected, summary, rc, dirs, mounts, cmds>>

\* SIGINT while tasks are in flight: KeyboardInterrupt is raised in the main
\* thread, which is in the with block (waiting in as_completed, or already
\* leaving on an exception); the block's exit waits for the pool.
Interrupt ==
    /\ rpc \in {"pool", "unwind"}
    /\ \E i \in TaskIds : tasks[i].pc # "done"
    /\ rpc' = "interrupted"
    /\ UNCHANGED <<remote, utilVars, chunkVars, envVars, vols, to_process, workers, tasks, results,
                   collected, summary, rc, dirs, mounts, cmds>>

\* shutdown(wait=True) is over; KeyboardInterrupt leaves run_plan and main
\* returns 130 (cli.py lines 119-121).
InterruptExit ==
    /\ rpc = "interrupted"
    /\ \A j \in TaskIds : tasks[j].pc = "done"
    /\ rpc' = "aborted"
    /\ UNCHANGED <<remote, utilVars, chunkVars, envVars, vols, to_process, workers, tasks, results,
                   collected, summary, rc, dirs, mounts, cmds>>

\* Lines 169-184: the run summary (write_json may raise).
WriteSummary ==
    /\ rpc = "pool"
    /\ collected = TaskIds
    /\ \E o \in {"ok", "OSError"} :
          IF o = "ok"
          THEN /\ rpc' = "summary"
               /\ summary' = <<[volumes_total |-> Len(vols),
                                volumes_processed |-> Len(to_process),
                                results |-> results]>>
          ELSE rpc' = "raised" /\ summary' = summary
    /\ UNCHANGED <<remote, utilVars, chunkVars, envVars, vols, to_process, workers, tasks, results, collected,
                   rc, dirs, mounts, cmds>>

\* Mutant of ExitCode: only exceptions count as failures.
ExitCode_ExceptionsOnly(rs) ==
    IF \E k \in 1..Len(rs) : rs[k].status = "exception" THEN 1 ELSE 0

\* Lines 186-194.
ExitCode(rs) == IF \E k \in 1..Len(rs) : rs[k].status # "ok" THEN 1 ELSE 0

Return ==
    /\ rpc = "summary"
    /\ rc' = ExitCode(results)
    /\ rpc' = "returned"
    /\ UNCHANGED <<remote, utilVars, chunkVars, envVars, vols, to_process, workers, tasks, results, collected,
                   summary, dirs, mounts, cmds>>

\* cli.py lines 117-125: main returns run_plan's value, 130 on
\* KeyboardInterrupt, or 1 when another exception leaves run_plan; -1 while
\* the run is on.
MainExit == CASE rpc = "returned" -> rc
              [] rpc = "aborted" -> 130
              [] rpc = "raised" -> 1
              [] OTHER -> -1

Next ==
    \/ Prepare
    \/ Discover
    \/ OnlyPass
    \/ Submit
    \/ \E i \in TaskIds : StartTask(i)
    \/ \E i \in TaskIds : DeriveName(i)
    \/ \E i \in TaskIds : MountStage(i)
    \/ \E i \in TaskIds : ArchiveStage(i)
    \/ \E i \in TaskIds : TransferStage(i)
    \/ \E i \in TaskIds : UmountStage(i)
    \/ \E i \in TaskIds : Collect(i)
    \/ Unwind
    \/ Interrupt
    \/ InterruptExit
    \/ WriteSummary
    \/ Return

\* ------------------------------------------------------------- chunker.py
\* make_chunks(cfg, mp, outdir, compressor_threads, dry), step by step, with
\* the files of outdir and a reader of that directory running beside it.
\* Sizes are in units of one byte per "MB"; outdir.name is Base.
Base == "vol"
\* Mutant of ManifestTmp: write_json writes the target itself.
ManifestTmp_InPlace == ManifestPath
\* path.with_suffix(path.suffix + ".tmp")
ManifestTmp == ManifestPath \o <<".tmp">>
Ext == IF cfg.compressor = "zstd" THEN "zst" ELSE "gz"
ArchiveName == <<Base, ".tar.", Ext>>
\* split -d -a 4: a numeric suffix of four digits, from 0000.
Suffix(k) ==
    LET s == IntStr(k)
    IN [i \in 1..4 |-> IF i <= 4 - Len(s) THEN "0" ELSE s[i - (4 - Len(s))]]
PartName(k) == ArchiveName \o <<".part">> \o Suffix(k)
ShaName(p) == p \o <<".sha256">>

\* A file as a reader of the directory finds it. A file being written in
\* place is partial from its creation (or truncation) to the end of the write.
File(data, by) == [data |-> data, partial |-> FALSE, by |-> by]
Opened == [data |-> <<>>, partial |-> TRUE, by |-> "build"]
PutFile(f, file) ==
    [q \in DOMAIN outdir \cup {f} |-> IF q = f THEN file ELSE outdir[q]]
\* Path.replace: rename(2) over the target.
Replace(from, to) ==
    [q \in (DOMAIN outdir \ {from}) \cup {to} |->
        IF q = to THEN outdir[from] ELSE outdir[q]]

RECURSIVE Chunks(_, _)
\* split -b n: pieces of n bytes, the last one possibly shorter.
Chunks(s, n) ==
    IF Len(s) <= n THEN (IF s = <<>> THEN <<>> ELSE <<s>>)
    ELSE <<SubSeq(s, 1, n)>> \o Chunks(SubSeq(s, n + 1, Len(s)), n)

RECURSIVE Digest(_)
\* The checksum of a byte sequence: sensitive to content, order and length.
Digest(s) ==
    IF s = <<>> THEN 1
    ELSE (31 * Digest(SubSeq(s, 1, Len(s) - 1)) + s[Len(s)]) % 251
\* A line of sha256sum output; awk '{print $1}' keeps the digest only.
ShaLine(data, path) == [hash |-> Digest(data), path |-> path]
Awk1(line) == [line EXCEPT !.path = <<>>]

\* The shell's *.part* in outdir: names with a .part component (dot files,
\* whose leading dot the * does not match, are not among them).
Glob == {f \in DOMAIN outdir : \E i \in 1..Len(f) : f[i] = ".part"}
RECURSIVE Sorted(_)
\* sort(1) on a set of names of one directory.
Sorted(S) ==
    IF S = {} THEN <<>>
    ELSE LET m == CHOOSE x \in S : \A y \in S \ {x} : StrLess(x, y)
         IN <<m>> \o Sorted(S \ {m})

\* The commands of the two pipelines whose exit status run() may see.
PipeStages == {"cd", "find", "tar", "comp", "sha256sum", "split"}
NoFailure == [s \in PipeStages |-> 0]
\* /bin/bash -lc "cd mp && find | tar | comp | ... | last": the status of a
\* pipeline is the status of its last command; the list stops at cd's failure.
PipeStatus(st, last) == IF st["cd"] # 0 THEN st["cd"] ELSE st[last]

McIdle == [pc |-> "idle", ret |-> "", st |-> NoFailure, todo |-> <<>>,
           open |-> FALSE, whole |-> <<>>]
McReturn(m, value) == [m EXCEPT !.pc = "done", !.ret = value]

\* Line 34.
Chunked == cfg.chunk_size_mb > 0
\* Line 24, with whole_sha256 as read at lines 53 and 65.
Manifest == [ext |-> Ext, chunk_size_mb |-> cfg.chunk_size_mb,
             whole_sha256 |-> mc.whole]

\* Lines 22-32: the output directory (mkdir may raise) and the commands.
McBegin ==
    /\ mc.pc = "start"
    /\ \E o \in {"ok", "OSError"} :
          mc' = IF o = "ok" THEN [mc EXCEPT !.pc = "pipe"] ELSE McReturn(mc, "raise")
    /\ UNCHANGED <<utilVars, envVars, progVars, stream, outdir, seen>>

\* Lines 36-43 and 57-61: the pipeline under bash. At most one of its
\* commands exits non-zero. split writes the chunk files; the redirections
\* create the whole-stream checksum file (chunked) or the archive.
McPipe ==
    /\ mc.pc = "pipe"
    /\ LET last == IF Chunked THEN "split" ELSE "comp"
           ran == IF args.dry THEN {}
                  ELSE IF Chunked THEN PipeStages
                  ELSE {"cd", "find", "tar", "comp"}
           parts == Chunks(stream, cfg.chunk_size_mb)
           names == {PartName(k - 1) : k \in 1..Len(parts)}
           split == [q \in DOMAIN outdir \cup names \cup {WholeSha} |->
                       IF q = WholeSha THEN Opened
                       ELSE IF q \in names
                            THEN File(parts[CHOOSE k \in 1..Len(parts) :
                                                q = PartName(k - 1)], "build")
                       ELSE outdir[q]]
       IN \E bad \in ran \cup {"none"} :
             LET st == [s \in PipeStages |-> IF s = bad THEN 1 ELSE 0]
                 status == IF args.dry THEN 0 ELSE PipeStatus(st, last)
             IN /\ outdir' = IF args.dry \/ st["cd"] # 0 THEN outdir
                             ELSE IF Chunked THEN split
                             ELSE PutFile(ArchiveName, File(stream, "build"))
                /\ mc' = IF status # 0 THEN McReturn([mc EXCEPT !.st = st], "False")
                         ELSE IF args.dry THEN McReturn(mc, "True")
                         ELSE [mc EXCEPT !.st = st,
                                         !.pc = IF Chunked THEN "glob" ELSE "whole"]
    /\ UNCHANGED <<utilVars, envVars, progVars, stream, seen>>

\* Lines 38: sha256sum | awk inside >( ) ends on its own; bash does not wait
\* for a process substitution.
ShaFlush ==
    /\ Chunked
    /\ mc.pc \notin {"idle", "start", "pipe"}
    /\ WholeSha \in DOMAIN outdir /\ outdir[WholeSha].partial
    /\ outdir' = PutFile(WholeSha,
                    File(IF mc.st["sha256sum"] = 0
                         THEN <<Awk1(ShaLine(stream, <<"-">>))>> ELSE <<>>, "build"))
    /\ UNCHANGED <<utilVars, envVars, progVars, stream, mc, seen>>

\* Line 45: the shell expands *.part* once, before the loop.
McGlob ==
    /\ mc.pc = "glob"
    /\ mc' = [mc EXCEPT !.todo = Sorted(Glob),
                        !.pc = IF Glob = {} THEN "list" ELSE "sums"]
    /\ UNCHANGED <<utilVars, envVars, progVars, stream, outdir, seen>>

\* The files written where they are read: by a shell redirection (the
\* per-chunk checksums, the chunk list, the unchunked whole checksum) or by
\* write_text (the unchunked chunk list, write_json's temporary file).
InPlace == {"sums", "list", "whole", "parts", "tmp"}
Target(pc) ==
    CASE pc = "sums" -> ShaName(Head(mc.todo))
      [] pc = "list" -> PartsList
      [] pc = "whole" -> WholeSha
      [] pc = "parts" -> PartsList
      [] pc = "tmp" -> ManifestTmp
\* What sha256sum reads from a file of the directory: a chunk's bytes, or,
\* for a checksum file the glob matched, the digests on its lines.
Bytes(f) ==
    IF f[Len(f)] = ".sha256"
    THEN [k \in 1..Len(outdir[f].data) |-> outdir[f].data[k].hash]
    ELSE outdir[f].data
Content(pc) ==
    CASE pc = "sums" -> <<ShaLine(Bytes(Head(mc.todo)), Head(mc.todo))>>
      [] pc = "list" -> Sorted(Glob)
      [] pc = "whole" -> <<ShaLine(stream, ArchiveName)>>
      [] pc = "parts" -> <<ArchiveName>>
      [] pc = "tmp" -> <<Manifest>>
After(pc) ==
    CASE pc = "sums" -> IF Len(mc.todo) > 1 THEN "sums" ELSE "list"
      [] pc = "list" -> "read"
      [] pc = "whole" -> "parts"
      [] pc = "parts" -> "read"
      [] pc = "tmp" -> "replace"

\* The open that creates or truncates the file.
McOpen ==
    /\ mc.pc \in InPlace /\ ~mc.open
    /\ outdir' = PutFile(Target(mc.pc), Opened)
    /\ mc' = [mc EXCEPT !.open = TRUE]
    /\ UNCHANGED <<utilVars, envVars, progVars, stream, seen>>

\* The write and close. sha256sum may exit non-zero (line 62, status
\* ignored); write_text may raise.
McWrite ==
    /\ mc.pc \in InPlace /\ mc.open
    /\ \E o \in {"ok"} \cup (IF mc.pc = "whole" THEN {"nonzero"} ELSE {})
                    \cup (IF mc.pc \in {"parts", "tmp"} THEN {"OSError"} ELSE {}) :
          CASE o = "ok" ->
                  /\ outdir' = PutFile(Target(mc.pc), File(Content(mc.pc), "build"))
                  /\ mc' = [mc EXCEPT !.open = FALSE, !.pc = After(mc.pc),
                                      !.todo = IF mc.pc = "sums" THEN Tail(@) ELSE @]
            [] o = "nonzero" ->
                  /\ outdir' = PutFile(Target(mc.pc), File(<<>>, "build"))
                  /\ mc' = [mc EXCEPT !.open = FALSE, !.pc = After(mc.pc),
                                      !.st = [@ EXCEPT !["sha256sum"] = 1]]
            [] OTHER ->
                  /\ outdir' = outdir
                  /\ mc' = McReturn(mc, "raise")
    /\ UNCHANGED <<utilVars, envVars, progVars, stream, seen>>

\* Lines 52-53 and 65: the whole-stream checksum is read back.
McReadWhole ==
    /\ mc.pc = "read"
    /\ mc' = IF WholeSha \in DOMAIN outdir
             THEN [mc EXCEPT !.whole = outdir[WholeSha].data, !.pc = "tmp"]
             ELSE McReturn(mc, IF Chunked THEN "True" ELSE "raise")
    /\ UNCHANGED <<utilVars, envVars, progVars, stream, outdir, seen>>

\* util.py line 110, then the return True.
McReplace ==
    /\ mc.pc = "replace"
    /\ outdir' = Replace(ManifestTmp, ManifestPath)
    /\ mc' = McReturn(mc, "True")
    /\ UNCHANGED <<utilVars, envVars, progVars, stream, seen>>

\* A reader of the directory looks at one of the files a build publishes.
Published == {ManifestPath, PartsList, WholeSha}
                \cup {f \in DOMAIN outdir : f[Len(f)] = ".sha256"}
NoSeen == [name |-> <<>>, state |-> "absent"]
ReadFile(f) ==
    /\ mc.pc # "idle"
    /\ seen' = [name |-> f,
                state |-> IF f \notin DOMAIN outdir THEN "absent"
                          ELSE IF outdir[f].partial THEN "partial"
                          ELSE outdir[f].by]
    /\ seen' # seen
    /\ UNCHANGED <<utilVars, envVars, progVars, stream, mc, outdir>>

NextChunk ==
    \/ McBegin
    \/ McPipe
    \/ ShaFlush
    \/ McGlob
    \/ McOpen
    \/ McWrite
    \/ McReadWhole
    \/ McReplace
    \/ \E f \in Published : ReadFile(f)

\* ------------------------------------------------------------ derive_token
Dates == {"20250101", "20250102"}
Sources == {"machine-id", "hostname"}
\* f"{date_str}:{host_identifier(cfg.token_source)}"
TokenInput(date, src) == <<date, ":", host_identifier(src)>>
TkIdle == [pc |-> "idle", date |-> "", ident |-> "", n |-> <<>>, out |-> <<>>,
           i |-> 0, token |-> <<>>, prev |-> <<>>]
\* derive_token is called: the input string is hashed and the first 8 bytes
\* of the digest become n. The call before, if any, is kept for comparison.
DeriveToken ==
    /\ tk.pc \in {"idle", "done"}
    /\ \E date \in Dates, src \in Sources :
          tk' = [pc |-> "loop", date |-> date, ident |-> host_identifier(src),
                 n |-> sha8[TokenInput(date, src)], out |-> <<>>, i |-> 0,
                 token |-> <<>>,
                 prev |-> IF tk.pc = "done"
                          THEN <<[date |-> tk.date, ident |-> tk.ident,
                                  token |-> tk.token]>>
                          ELSE <<>>]
    /\ UNCHANGED <<envVars, progVars, chunkVars, hostid, sha8, fnd, links, pkd>>
\* One turn of `for _ in range(6)`: append chars[n % 36], n //= 36.
Base36Step ==
    /\ tk.pc = "loop" /\ tk.i < 6
    /\ LET dm == DivMod36(tk.n, 0)
       IN tk' = [tk EXCEPT !.out = Append(@, Chars[dm.r + 1]), !.n = dm.q,
                           !.i = @ + 1]
    /\ UNCHANGED <<envVars, progVars, chunkVars, hostid, sha8, fnd, links, pkd>>
\* return "".join(out)[:5]
Base36Return ==
    /\ tk.pc = "loop" /\ tk.i = 6
    /\ tk' = [tk EXCEPT !.pc = "done", !.token = Take5(tk.out)]
    /\ UNCHANGED <<envVars, progVars, chunkVars, hostid, sha8, fnd, links, pkd>>
NextToken ==
    \/ DeriveToken
    \/ Base36Step
    \/ Base36Return
TokenIdle == hostid = <<>> /\ sha8 = <<>> /\ tk = TkIdle

\* ----------------------------------------------------------- build_find_cmd
\* The unit of find's -size test with the suffix M.
MiB == 1048576
\* find rounds a file's size up to whole units before comparing.
SizeUnits(size) == (size + MiB - 1) \div MiB
\* `-size -<n>M`: fewer than n units.
SizeBelow(size, n) == SizeUnits(size) < n
\* The expression build_find_cmd gives find, on one entry: whether the entry
\* is printed. max_mb is {} for None.
Printed(e, max_mb) ==
    LET limited == max_mb # {} /\ (CHOOSE n \in max_mb : TRUE) > 0
    IN \/ e.type = "d"
       \/ e.type = "l"
       \/ /\ e.type = "f"
          /\ limited => SizeBelow(e.size, CHOOSE n \in max_mb : TRUE)
FindIdle == [pc |-> "idle", tree |-> <<>>, max_mb |-> {}, i |-> 0, out |-> <<>>]
\* find visits the next entry under the mountpoint and prints its relative
\* path, NUL-terminated (-print0), when the expression holds.
FindVisit ==
    /\ fnd.pc = "run" /\ fnd.i < Len(fnd.tree)
    /\ LET e == fnd.tree[fnd.i + 1]
       IN fnd' = [fnd EXCEPT !.i = @ + 1,
                             !.out = IF Printed(e, fnd.max_mb)
                                     THEN Append(@, [entry |-> fnd.i + 1,
                                                     term |-> "NUL"])
                                     ELSE @]
    /\ UNCHANGED <<envVars, progVars, chunkVars, hostid, sha8, tk, links, pkd>>
FindExit ==
    /\ fnd.pc = "run" /\ fnd.i = Len(fnd.tree)
    /\ fnd' = [fnd EXCEPT !.pc = "done"]
    /\ UNCHANGED <<envVars, progVars, chunkVars, hostid, sha8, tk, links, pkd>>
NextFind ==
    \/ FindVisit
    \/ FindExit

\* --------------------------------------------------------------- pk_disk_of
\* The loop of pk_disk_of, one lsblk lookup at a time, on a chain of devices
\* 1..len in which device k names k + 1 as its parent and the last device is
\* a disk, has no parent, cannot be looked up, or names device `back', an
\* earlier one or itself, as its parent.
\* `lsblk -no TYPE,PKNAME <cur>`: rc, and the first two tokens of the output.
Lookup(k) ==
    IF k = links.len /\ links.end = "fail" THEN [rc |-> 32, t |-> "", pk |-> 0]
    ELSE IF k = links.len /\ links.end = "disk" THEN [rc |-> 0, t |-> "disk", pk |-> 0]
    ELSE IF k = links.len /\ links.end = "none" THEN [rc |-> 0, t |-> "part", pk |-> 0]
    ELSE IF k = links.len THEN [rc |-> 0, t |-> "lvm", pk |-> links.back]
    ELSE [rc |-> 0, t |-> "part", pk |-> k + 1]
\* for _ in range(8)
MoreHops_Unbounded(i) == TRUE
MoreHops(i) == i < HopLimit
\* None, or "/dev/" + the output of the NAME lookup, whose status is not read.
None == [found |-> FALSE, at |-> 0, name |-> FALSE]
DevName(k, ok) == [found |-> TRUE, at |-> k, name |-> ok]
PkIdle == [pc |-> "idle", cur |-> 0, seen |-> {}, i |-> 0, t |-> "", ret |-> None]
NoLinks == [len |-> 0, end |-> "none", back |-> 0]
\* One turn of the loop, lines 27-40.
PkLookup ==
    /\ pkd.pc = "loop" /\ MoreHops(pkd.i)
    /\ LET l == Lookup(pkd.cur)
       IN \/ /\ l.rc # 0
             /\ pkd' = [pkd EXCEPT !.pc = "done", !.i = @ + 1]
          \/ /\ l.rc = 0 /\ l.t = "disk"
             /\ \E ok \in BOOLEAN :
                   pkd' = [pkd EXCEPT !.pc = "done", !.i = @ + 1, !.t = l.t,
                                      !.ret = DevName(pkd.cur, ok)]
          \/ /\ l.rc = 0 /\ l.t # "disk" /\ (l.pk = 0 \/ l.pk \in pkd.seen)
             /\ pkd' = [pkd EXCEPT !.pc = "done", !.i = @ + 1, !.t = l.t]
          \/ /\ l.rc = 0 /\ l.t # "disk" /\ l.pk # 0 /\ l.pk \notin pkd.seen
             /\ pkd' = [pkd EXCEPT !.i = @ + 1, !.t = l.t,
                                   !.seen = @ \cup {l.pk}, !.cur = l.pk]
    /\ UNCHANGED <<envVars, progVars, chunkVars, hostid, sha8, tk, fnd, links>>
\* The loop is exhausted: line 41, return None.
PkGiveUp ==
    /\ pkd.pc = "loop" /\ ~MoreHops(pkd.i)
    /\ pkd' = [pkd EXCEPT !.pc = "done"]
    /\ UNCHANGED <<envVars, progVars, chunkVars, hostid, sha8, tk, fnd, links>>
NextPk ==
    \/ PkLookup
    \/ PkGiveUp
UtilIdle == TokenIdle /\ fnd = FindIdle /\ links = NoLinks /\ pkd = PkIdle

ChunkIdle == stream = <<>> /\ mc = McIdle /\ outdir = <<>> /\ seen = NoSeen

\* ------------------------------------------------------------------- Init
Found(src) == [rc |-> 0, out |-> src]
NotFound == [rc |-> 1, out |-> <<>>]
Blk(type, label) == [rc |-> 0, TYPE |-> type, LABEL |-> label, APFS_FEATURES |-> ""]
BlkFail == [rc |-> 2, TYPE |-> "", LABEL |-> "", APFS_FEATURES |-> ""]

InitProg ==
    /\ rpc = "start"
    /\ vols = <<>>
    /\ to_process = <<>>
    /\ workers = 0
    /\ tasks = <<>>
    /\ results = <<>>
    /\ collected = {}
    /\ summary = <<>>
    /\ rc = -1
    /\ dirs = {}
    /\ mounts = <<>>
    /\ cmds = {}
    /\ remote = <<>>

\* The hosts: what lsblk, blkid and findmnt report.
\*   sda1: a data partition, plain or an encrypted container;
\*   sdb:  either a data disk (sdb1 ntfs) or a live USB stick, which carries
\*         iso9660 on the whole disk and a small vfat partition;
\*   md1:  a small md array.
Sda1Kinds ==
    { [fstype |-> "ext4", blk |-> Blk("ext4", "")],
      [fstype |-> "crypto_LUKS", blk |-> Blk("crypto_LUKS", "")],
      [fstype |-> "crypto_LUKS", blk |-> BlkFail],
      [fstype |-> "ntfs", blk |-> Blk("ntfs", "BitLocker")] }
LsblkOf(k, live, sz) ==
    [rc |-> 0, json |-> TRUE, members |-> {"sda1"}, mdtype |-> "raid1",
     fstype |-> [sda |-> "", sda1 |-> k.fstype, sdb |-> IF live THEN "iso9660" ELSE "",
                 sdb1 |-> IF live THEN "vfat" ELSE "ntfs", md1 |-> "ext4"],
     size |-> [sda |-> MaxSizeGb, sda1 |-> sz, sdb |-> MaxSizeGb,
               sdb1 |-> IF live THEN 0 ELSE 1, md1 |-> 0]]
BlkidOf(k, l) ==
    [n \in Nodes |-> IF n = "sda1" THEN k.blk ELSE Blk(l.fstype[n], "")]
\* How the lsblk call ends: listing, a non-zero exit, or output that is not
\* JSON.
LsblkRuns == {[rc |-> 0, json |-> TRUE], [rc |-> 32, json |-> FALSE],
              [rc |-> 0, json |-> FALSE]}
Findmnts ==
    { [q \in {"/", "/cdrom", "/isodevice"} |-> NotFound],
      [q \in {"/", "/cdrom", "/isodevice"} |->
          IF q = "/" THEN Found(<<"overlay">>)
          ELSE IF q = "/cdrom" THEN Found(NodePath("sdb1")) ELSE NotFound],
      [q \in {"/", "/cdrom", "/isodevice"} |->
          IF q = "/" THEN Found(NodePath("sda1")) ELSE NotFound] }

DefaultCfg ==
    [skip_if_encrypted |-> TRUE, include_fstypes |-> {}, skip_fstypes |-> {},
     avoid_devices |-> {}, min_partition_size_gb |-> 1, workers |-> 0,
     pattern |-> DefaultPattern, compressor |-> "zstd", chunk_size_mb |-> 1]
DefaultArgs ==
    [only |-> {}, list_only |-> FALSE, workers_override |-> {}, dry |-> FALSE]

\* Three groups of inputs: what is discovered, the run's options, and the
\* host's resources. Each group takes all its values while at least one of
\* the other two is at its default.
Init ==
    /\ \E k \in Sda1Kinds, live \in BOOLEAN, f \in Findmnts, enc \in BOOLEAN,
          only \in {{}, {NodePath("sdb1")}},
          pat \in {DefaultPattern, HostPattern}, lst \in BOOLEAN, dry \in BOOLEAN,
          wo \in {{}, {1}, {MaxWorkers + 1}}, cw \in {0, 2},
          cpu \in 1..MaxCpu \cup {2 * MaxWorkers + 2}, sz \in 0..MaxSizeGb,
          lk \in LsblkRuns, sb \in {1, MaxSizeGb} :
          LET plainHost == k.fstype = "ext4" /\ ~live /\ f["/"].rc # 0 /\ enc
                           /\ only = {}
              plainRun == pat = DefaultPattern /\ ~lst /\ ~dry /\ wo = {}
                          /\ cw = 0
              fullHost == cpu = MaxCpu /\ sz = MaxSizeGb /\ sb = 1
          IN /\ \/ plainRun /\ fullHost
                \/ plainHost /\ fullHost
                \/ plainHost /\ plainRun
             /\ lsblk = [LsblkOf(k, live, sz) EXCEPT
                            !.rc = lk.rc, !.json = lk.json,
                            !.size["sdb1"] = IF live THEN @ ELSE sb]
             /\ blkid = BlkidOf(k, lsblk)
             /\ findmnt = f
             /\ host = [cpu |-> cpu, apfs_fuse |-> FALSE]
             /\ cfg = [DefaultCfg EXCEPT !.skip_if_encrypted = enc, !.pattern = pat,
                                      !.workers = cw]
             /\ args = [only |-> only, list_only |-> lst, workers_override |-> wo,
                        dry |-> dry]
    /\ InitProg
    /\ UtilIdle
    /\ ChunkIdle

Spec == Init /\ [][Next]_vars

\* Mounting, over every filesystem type: sda1 backs the root filesystem and
\* sdb1 carries any of the types mount_ro distinguishes, or another one.
FsTypes == {"ext2", "ext3", "ext4", "xfs", "btrfs", "ntfs", "vfat", "exfat",
            "hfs", "hfsplus", "apfs", "zfs", "f2fs", ""}
InitMount ==
    /\ \E fs \in FsTypes, fuse \in BOOLEAN, dry \in BOOLEAN :
          /\ lsblk = [rc |-> 0, json |-> TRUE, members |-> {"sda1"},
                      mdtype |-> "raid1",
                      fstype |-> [sda |-> "", sda1 |-> "ext4", sdb |-> "",
                                  sdb1 |-> fs, md1 |-> "ext4"],
                      size |-> [sda |-> MaxSizeGb, sda1 |-> MaxSizeGb,
                                sdb |-> MaxSizeGb, sdb1 |-> 1, md1 |-> 0]]
          /\ blkid = [n \in Nodes |-> Blk(lsblk.fstype[n], "")]
          /\ host = [cpu |-> MaxCpu, apfs_fuse |-> fuse]
          /\ args = [DefaultArgs EXCEPT !.dry = dry]
    /\ findmnt = [q \in {"/", "/cdrom", "/isodevice"} |->
                     IF q = "/" THEN Found(NodePath("sda1")) ELSE NotFound]
    /\ cfg = DefaultCfg
    /\ InitProg
    /\ UtilIdle
    /\ ChunkIdle

SpecMount == InitMount /\ [][Next]_vars

\* A manifest an earlier build of the same name left in the directory.
OldManifest == [ext |-> "zst", chunk_size_mb |-> 0, whole_sha256 |-> <<>>]
\* The stream of the earlier build: as long as a stream gets, of other bytes.
OldStream == [i \in 1..MaxStream |-> MaxStream + i]
\* What an earlier build of the same name, under the same configuration,
\* left in the directory: its chunks and their checksums (or its archive),
\* the chunk list, the whole-stream checksum and the manifest.
OldBuild ==
    LET parts == Chunks(OldStream, cfg.chunk_size_mb)
        names == {PartName(k - 1) : k \in 1..Len(parts)}
        sums == {ShaName(f) : f \in names}
        meta == {ManifestPath, PartsList, WholeSha}
        PartOf(f) == parts[CHOOSE k \in 1..Len(parts) : f = PartName(k - 1)]
    IN IF cfg.chunk_size_mb > 0
       THEN [q \in names \cup sums \cup meta |->
               IF q \in names THEN File(PartOf(q), "prev")
               ELSE IF q \in sums
                    THEN File(<<ShaLine(PartOf(SubSeq(q, 1, Len(q) - 1)),
                                        SubSeq(q, 1, Len(q) - 1))>>, "prev")
               ELSE IF q = PartsList THEN File(Sorted(names \cup sums), "prev")
               ELSE IF q = WholeSha
                    THEN File(<<Awk1(ShaLine(OldStream, <<"-">>))>>, "prev")
               ELSE File(<<OldManifest>>, "prev")]
       ELSE [q \in {ArchiveName} \cup meta |->
               IF q = ArchiveName THEN File(OldStream, "prev")
               ELSE IF q = PartsList THEN File(<<ArchiveName>>, "prev")
               ELSE IF q = WholeSha
                    THEN File(<<ShaLine(OldStream, ArchiveName)>>, "prev")
               ELSE File(<<OldManifest>>, "prev")]
InitChunk ==
    /\ \E n \in 1..MaxStream, c \in 0..MaxChunk, dry \in BOOLEAN, prev \in BOOLEAN,
          rerun \in BOOLEAN, z \in {"zstd", "pigz"} :
          /\ stream = [i \in 1..n |-> i]
          /\ cfg = [DefaultCfg EXCEPT !.chunk_size_mb = c, !.compressor = z]
          /\ args = [DefaultArgs EXCEPT !.dry = dry]
          /\ rerun => prev /\ z = "zstd"
          /\ outdir = IF rerun THEN OldBuild
                      ELSE IF prev THEN ManifestPath :> File(<<OldManifest>>, "prev")
                      ELSE <<>>
    /\ mc = [McIdle EXCEPT !.pc = "start"]
    /\ seen = NoSeen
    /\ lsblk = LsblkOf(CHOOSE k \in Sda1Kinds : k.blk = Blk("ext4", ""), FALSE, MaxSizeGb)
    /\ blkid = BlkidOf(CHOOSE k \in Sda1Kinds : k.blk = Blk("ext4", ""), lsblk)
    /\ findmnt = [q \in {"/", "/cdrom", "/isodevice"} |-> NotFound]
    /\ host = [cpu |-> MaxCpu, apfs_fuse |-> FALSE]
    /\ InitProg
    /\ UtilIdle

SpecChunk == InitChunk /\ [][NextChunk]_vars

\* Token derivation, over the host's identity files, the date, the token
\* source and the digest: sha256 is a fixed function the model does not
\* compute, so each behaviour fixes one, with digests whose leading bytes are
\* all zero, all 255, or mixed.
Samples == {<<0, 0, 0, 0, 0, 0, 0, 0>>,
            <<255, 255, 255, 255, 255, 255, 255, 255>>,
            <<18, 52, 86, 120, 154, 188, 222, 240>>}
InitToken ==
    /\ \E mid \in {Unreadable, Text("mid")}, uuid \in {Text(""), Text("uuid")} :
          hostid = [machine_id |-> mid, product_uuid |-> uuid, nodename |-> "node"]
    /\ sha8 \in [{TokenInput(d, s) : d \in Dates, s \in Sources} -> Samples]
    /\ tk = TkIdle
    /\ fnd = FindIdle
    /\ links = NoLinks /\ pkd = PkIdle
    /\ lsblk = LsblkOf(CHOOSE k \in Sda1Kinds : k.blk = Blk("ext4", ""), FALSE, MaxSizeGb)
    /\ blkid = BlkidOf(CHOOSE k \in Sda1Kinds : k.blk = Blk("ext4", ""), lsblk)
    /\ findmnt = [q \in {"/", "/cdrom", "/isodevice"} |-> NotFound]
    /\ host = [cpu |-> MaxCpu, apfs_fuse |-> FALSE]
    /\ cfg = DefaultCfg
    /\ args = DefaultArgs
    /\ InitProg
    /\ ChunkIdle

SpecToken == InitToken /\ [][NextToken]_vars

\* The listing, over the size ceiling and the entries under the mountpoint:
\* the root directory and two more entries, each a directory, a symbolic
\* link, a socket, or a regular file of a size at or next to a whole number
\* of find's units.
Entries ==
    {[type |-> t, size |-> 0] : t \in {"d", "l", "s"}}
    \cup {[type |-> "f", size |-> z] :
             z \in {0, 1, MiB - 1, MiB, MiB + 1, 2 * MiB - 1, 2 * MiB}}
InitFind ==
    /\ \E a \in Entries, b \in Entries, mb \in {{}, {0}, {1}, {2}} :
          fnd = [pc |-> "run", tree |-> <<[type |-> "d", size |-> 0], a, b>>,
                 max_mb |-> mb, i |-> 0, out |-> <<>>]
    /\ TokenIdle
    /\ links = NoLinks /\ pkd = PkIdle
    /\ lsblk = LsblkOf(CHOOSE k \in Sda1Kinds : k.blk = Blk("ext4", ""), FALSE, MaxSizeGb)
    /\ blkid = BlkidOf(CHOOSE k \in Sda1Kinds : k.blk = Blk("ext4", ""), lsblk)
    /\ findmnt = [q \in {"/", "/cdrom", "/isodevice"} |-> NotFound]
    /\ host = [cpu |-> MaxCpu, apfs_fuse |-> FALSE]
    /\ cfg = DefaultCfg
    /\ args = DefaultArgs
    /\ InitProg
    /\ ChunkIdle

SpecFind == InitFind /\ [][NextFind]_vars

\* Parent resolution, over the chains of up to two devices more than the
\* loop has turns and the four ways a chain ends. A call runs in one thread
\* and each lookup returns, so the loop keeps taking turns.
InitPk ==
    /\ \E len \in 1..(HopLimit + 2), end \in {"disk", "none", "fail", "cycle"},
          back \in 0..(HopLimit + 2) :
          /\ (end = "cycle") = (back # 0)
          /\ back <= len
          /\ links = [len |-> len, end |-> end, back |-> back]
    /\ pkd = [PkIdle EXCEPT !.pc = "loop", !.cur = 1]
    /\ TokenIdle /\ fnd = FindIdle
    /\ lsblk = LsblkOf(CHOOSE k \in Sda1Kinds : k.blk = Blk("ext4", ""), FALSE, MaxSizeGb)
    /\ blkid = BlkidOf(CHOOSE k \in Sda1Kinds : k.blk = Blk("ext4", ""), lsblk)
    /\ findmnt = [q \in {"/", "/cdrom", "/isodevice"} |-> NotFound]
    /\ host = [cpu |-> MaxCpu, apfs_fuse |-> FALSE]
    /\ cfg = DefaultCfg
    /\ args = DefaultArgs
    /\ InitProg
    /\ ChunkIdle

SpecPk == InitPk /\ [][NextPk]_vars /\ WF_vars(NextPk)

\* Filtering, over the discovery options: the avoid list, the deny and allow
\* lists of filesystem types, the encryption policy and the --only set, on
\* the two-disk host with sda1 large or too small, and md1 small or large,
\* an array of sda1 alone or of sda1 and sdb1, of level 1 or 5 (the array varies
\* while the options are at their defaults). The run is dry.
InitFilter ==
    /\ \E k \in Sda1Kinds, f \in Findmnts, enc \in BOOLEAN, lst \in BOOLEAN,
          avoid \in {{}, {KName["sda1"]}},
          skip \in {{}, {"ntfs"}},
          incl \in {{}, {"ext4", "crypto_luks"}},
          only \in {{}, {NodePath("sdb1")}, {NodePath("sda1"), NodePath("md1")}},
          sz \in {0, MaxSizeGb}, md \in {0, MaxSizeGb},
          mem \in {{"sda1"}, {"sda1", "sdb1"}}, mt \in {"raid1", "raid5"} :
          /\ \/ md = 0 /\ mem = {"sda1"} /\ mt = "raid1"
             \/ avoid = {} /\ skip = {} /\ incl = {} /\ only = {} /\ enc
                /\ f["/"].rc # 0 /\ k.fstype = "ext4" /\ ~lst
          /\ lsblk = [LsblkOf(k, FALSE, sz) EXCEPT !.size["md1"] = md,
                                                   !.members = mem,
                                                   !.mdtype = mt]
          /\ blkid = BlkidOf(k, lsblk)
          /\ findmnt = f
          /\ cfg = [DefaultCfg EXCEPT !.skip_if_encrypted = enc,
                                      !.avoid_devices = avoid,
                                      !.skip_fstypes = skip,
                                      !.include_fstypes = incl]
          /\ args = [only |-> only, list_only |-> lst, workers_override |-> {},
                     dry |-> TRUE]
    /\ host = [cpu |-> 1, apfs_fuse |-> FALSE]
    /\ InitProg
    /\ UtilIdle
    /\ ChunkIdle

SpecFilter == InitFilter /\ [][Next]_vars

\* ----------------------------------------------------------------- claims
Count(i, op) == Cardinality({k \in 1..Len(tasks[i].log) : tasks[i].log[k].op = op})
Did(i, op, out) ==
    \E k \in 1..Len(tasks[i].log) : tasks[i].log[k] = [op |-> op, out |-> out]
Stages == {"mount_ro", "make_chunks", "rsync_dir"}
EnteredTry(i) == Count(i, "mount_ro") > 0

\* C1: in every volume task that reached its mount stage, whatever the mount,
\* archive and transfer stages did (success, failure or an exception), umount
\* is invoked exactly once, after the last stage that was attempted: a
\* finished task's log ends with its only umount, and no stage follows one.
C1_UmountExactlyOnce ==
    \A i \in TaskIds :
        LET L == tasks[i].log IN
        /\ Count(i, "umount") <= 1
        /\ \A k \in 1..Len(L) : L[k].op = "umount" => k = Len(L)
        /\ (tasks[i].pc = "done" /\ EnteredTry(i)) =>
               Count(i, "umount") = 1 /\ L[Len(L)].op = "umount"
\* A task whose transfer stage raised has finished, its umount done.
C1_Witness ==
    \E i \in TaskIds :
        /\ tasks[i].pc = "done"
        /\ Did(i, "rsync_dir", "raise")
        /\ Count(i, "umount") = 1

\* C2: every mount command mount_ro issues mounts read-only: its -o options
\* include ro, or (the fuse-backed apfs bridge) it is passed --readonly.
IsReadOnly(c) ==
    \/ \E k \in 1..Len(c.opts) : c.opts[k] = "ro"
    \/ \E k \in 1..Len(c.flags) : c.flags[k] = "--readonly"
C2_MountsReadOnly == \A c \in cmds : IsReadOnly(c)
\* A command has been issued through the fuse-backed apfs bridge.
C2_Witness ==
    \E c \in cmds : c.tool = "apfs-fuse" /\ c.src = NodePath("sdb1")

\* The devices findmnt names for the root filesystem and the live media, and
\* the disk each of them is on (the host's device tree, not the program's
\* guess).
BootSources ==
    {findmnt[q].out : q \in {m \in {"/", "/cdrom", "/isodevice"} :
                                 findmnt[m].rc = 0 /\ StartsWithDev(findmnt[m].out)}}
RECURSIVE DiskOf(_)
DiskOf(n) == IF NodeType[n] = "disk" THEN n
             ELSE DiskOf(CHOOSE m \in Nodes :
                            \E k \in 1..Len(Children[m]) : Children[m][k] = n)
BootProtected ==
    BootSources \cup {NodePath(DiskOf(NodeOf(b))) : b \in {x \in BootSources : HasNode(x)}}

\* C3: the device backing the root filesystem, every live-media mountpoint
\* device, and the parent disk of each are in the exclusion set, so no volume
\* that is one of them is eligible or gets mounted.
C3_BootAndParentExcluded ==
    /\ vols # <<>> => (\A b \in BootProtected : b \in find_boot_devices)
    /\ \A k \in 1..Len(vols) :
          vols[k].path \in BootProtected => vols[k].skip_reason # NoStr
    /\ \A i \in 1..Len(to_process) : to_process[i].path \notin BootProtected
    /\ \A c \in cmds : c.src \notin BootProtected

\* C4: under the skip-on-encryption policy a volume the heuristic flags is
\* never eligible: once filtered it carries a skip reason, with or without an
\* only-include set, it is not among the volumes submitted, and no mount
\* command names it.
Flagged(v) == cfg.skip_if_encrypted /\ is_encrypted(v.path, v.fstype)
C4_EncryptedNeverProcessed ==
    /\ \A k \in 1..Len(vols) : Flagged(vols[k]) => vols[k].skip_reason # NoStr
    /\ \A i \in 1..Len(to_process) : ~Flagged(to_process[i])
    /\ \A c \in cmds : \A k \in 1..Len(vols) : vols[k].path = c.src => ~Flagged(vols[k])
\* A run with an only-include set has processed another volume while the
\* flagged one stayed skipped as encrypted.
C4_Witness ==
    /\ args.only # {}
    /\ cmds # {}
    /\ \E k \in 1..Len(vols) :
          Flagged(vols[k]) /\ vols[k].skip_reason = <<"encrypted">>

\* C5: the archive stage is invoked only after mount_ro returned success,
\* the transfer stage only after make_chunks returned success, and each of
\* the three stages at most once per task.
C5_StagesGated ==
    \A i \in TaskIds :
        LET L == tasks[i].log IN
        /\ \A op \in Stages : Count(i, op) <= 1
        /\ \A k \in 1..Len(L) :
              /\ L[k].op = "make_chunks" =>
                    \E j \in 1..(k - 1) : L[j] = [op |-> "mount_ro", out |-> "ok"]
              /\ L[k].op = "rsync_dir" =>
                    \E j \in 1..(k - 1) : L[j] = [op |-> "make_chunks", out |-> "ok"]
\* A task whose mount failed has finished without archiving or transferring,
\* beside one that went through all three stages.
C5_Witness ==
    \E i, j \in TaskIds :
        /\ tasks[i].pc = "done" /\ Did(i, "mount_ro", "fail")
        /\ Count(i, "make_chunks") = 0
        /\ tasks[j].pc = "done" /\ Did(j, "rsync_dir", "ok")

\* C6: the status of a returned VolumeResult is that of the first stage that
\* did not succeed: exception if a stage raised, else mount_failed,
\* chunk_failed or rsync_failed for the stage that returned failure; it is ok
\* exactly when all three stages returned success.
ExpectedStatus(i) ==
    IF \E op \in Stages : Did(i, op, "raise") THEN "exception"
    ELSE IF Did(i, "mount_ro", "fail") THEN "mount_failed"
    ELSE IF Did(i, "make_chunks", "fail") THEN "chunk_failed"
    ELSE IF Did(i, "rsync_dir", "fail") THEN "rsync_failed"
    ELSE "ok"
AllStagesOk(i) == \A op \in Stages : Did(i, op, "ok")
Returned(i) == tasks[i].pc = "done" /\ tasks[i].ret = "result"
C6_StatusFromFirstFailure ==
    \A i \in TaskIds :
        /\ Returned(i) =>
              /\ tasks[i].status = ExpectedStatus(i)
              /\ (tasks[i].status = "ok") <=> AllStagesOk(i)
        /\ (Returned(i) /\ i \in collected) =>
              \E k \in 1..Len(results) :
                  /\ results[k].name = tasks[i].name
                  /\ results[k].device = Vol(i).path
                  /\ results[k].status = ExpectedStatus(i)
\* A collected result with status rsync_failed: mount and archive succeeded.
C6_Witness ==
    \E i \in collected :
        /\ Returned(i) /\ Did(i, "rsync_dir", "fail")
        /\ \E k \in 1..Len(results) :
              results[k].device = Vol(i).path /\ results[k].status = "rsync_failed"

\* C7: a fault raised anywhere while a volume is processed (name derivation,
\* mount, archive, transfer, the unmount cleanup) ends in that volume's
\* VolumeResult with status exception and the message recorded, and never
\* propagates out of the task into run_plan's result collection.
Faulted(i) == \E k \in 1..Len(tasks[i].log) : tasks[i].log[k].out = "raise"
C7_FaultsBecomeResults ==
    /\ \A i \in TaskIds :
          (tasks[i].pc = "done" /\ Faulted(i)) =>
              /\ tasks[i].ret = "result"
              /\ tasks[i].status = "exception"
              /\ tasks[i].error # ""
    /\ rpc # "unwind"

\* C8: once run_plan is in the processing stage, whatever each task does, the
\* result list the summary is written from holds exactly one VolumeResult per
\* eligible volume, and every task runs to its own end.
Processing == workers > 0
RunOver == rpc \in {"summary", "returned", "raised"}
C8_OneResultPerVolume ==
    (Processing /\ RunOver) =>
        /\ Len(results) = Len(to_process)
        /\ collected = TaskIds
        /\ \A i \in TaskIds : tasks[i].pc = "done" /\ tasks[i].ret = "result"
        /\ summary # <<>> => summary[1].results = results

\* C9: past discovery and not listing, run_plan returns 1 if some VolumeResult
\* has a status other than ok, and 0 otherwise, also when nothing was eligible.
C9_ExitCode ==
    (Processing /\ rpc = "returned") =>
        /\ rc \in {0, 1}
        /\ (rc = 1) <=> (\E k \in 1..Len(results) : results[k].status # "ok")
        /\ (rc = 0) <=> (\A i \in TaskIds : Returned(i) /\ AllStagesOk(i))
\* run_plan has returned 1 with one volume ok and another rsync_failed.
C9_Witness ==
    /\ Processing /\ rpc = "returned" /\ rc = 1
    /\ \E j, k \in 1..Len(results) :
          results[j].status = "ok" /\ results[k].status = "rsync_failed"

\* C10: the volumes of one run have pairwise distinct per-volume names, hence
\* distinct mountpoints and spool subdirectories.
Named(i) == tasks[i].name # <<>>
C10_NamesDistinct ==
    \A i, j \in TaskIds :
        (i # j /\ Named(i) /\ Named(j)) =>
            /\ tasks[i].name # tasks[j].name
            /\ MountPoint(tasks[i].name) # MountPoint(tasks[j].name)
            /\ WorkRoot(tasks[i].name) # WorkRoot(tasks[j].name)

\* C11: if any stage of the archive pipeline (listing, archiving,
\* compression, checksumming, splitting) exits non-zero, make_chunks returns
\* failure and writes no manifest, chunked or not.
StageFailed == \E s \in PipeStages : mc.st[s] # 0
NewManifest == ManifestPath \in DOMAIN outdir /\ outdir[ManifestPath].by = "build"
C11_StageFailureFailsBuild ==
    StageFailed => /\ mc.ret # "True"
                   /\ ~NewManifest

\* C12: after a successful chunked build the chunk list names exactly the
\* chunk files in sequence order, their concatenation in listed order is the
\* compressed stream, and its checksum is the manifest's whole_sha256.
RECURSIVE Concat(_)
Concat(names) ==
    IF names = <<>> THEN <<>>
    ELSE outdir[Head(names)].data \o Concat(Tail(names))
BuiltChunked == mc.pc = "done" /\ mc.ret = "True" /\ Chunked /\ ~args.dry
C12_ChunkRoundTrip ==
    BuiltChunked =>
        /\ PartsList \in DOMAIN outdir
        /\ outdir[PartsList].data =
              [k \in 1..Len(Chunks(stream, cfg.chunk_size_mb)) |-> PartName(k - 1)]
        /\ Concat(outdir[PartsList].data) = stream
        /\ NewManifest
        /\ outdir[ManifestPath].data[1].whole_sha256 =
              <<Awk1(ShaLine(Concat(outdir[PartsList].data), <<"-">>))>>

\* C13: the manifest is replaced atomically: the manifest path holds no file,
\* the previous manifest or the complete new one, and that is all a
\* concurrent reader ever sees there.
C13_ManifestAtomic ==
    /\ ManifestPath \in DOMAIN outdir =>
          /\ ~outdir[ManifestPath].partial
          /\ outdir[ManifestPath].data \in {<<OldManifest>>, <<Manifest>>}
    /\ seen.name = ManifestPath => seen.state \in {"absent", "prev", "build"}
\* A reader saw the previous manifest while the new one was half written to
\* the temporary file, and the build then put the new one in place.
C13_Witness ==
    /\ seen.name = ManifestPath /\ seen.state = "prev"
    /\ mc.pc = "done" /\ mc.ret = "True"
    /\ NewManifest

\* C14: every metadata file of a build (chunk list, whole-stream checksum,
\* per-chunk checksums, manifest) appears under its name only complete, so a
\* concurrent reader never finds one half written.
C14_MetadataAtomic ==
    /\ \A f \in Published \cap DOMAIN outdir : ~outdir[f].partial
    /\ seen.state # "partial"

\* C15: collect_volumes gives each candidate the reason of the first matching
\* rule in the order boot/avoid, deny-listed filesystem, allow list present
\* and filesystem not in it, encrypted under the policy, below the minimum
\* size; a volume matching none has no reason.
Rules(v) ==
    <<[hit |-> v.path \in find_boot_devices \/ BaseName(v.path) \in cfg.avoid_devices,
       reason |-> <<"boot/avoid">>],
      [hit |-> v.fstype \in cfg.skip_fstypes,
       reason |-> <<"skip_fstype:", v.fstype>>],
      [hit |-> cfg.include_fstypes # {} /\ v.fstype \notin cfg.include_fstypes,
       reason |-> <<"unsupported_fstype:", v.fstype>>],
      [hit |-> cfg.skip_if_encrypted /\ v.encrypted,
       reason |-> <<"encrypted">>],
      [hit |-> v.size_bytes < cfg.min_partition_size_gb,
       reason |-> <<"too_small<">> \o IntStr(cfg.min_partition_size_gb) \o <<"G">>]>>
Hits(v) == {r \in 1..Len(Rules(v)) : Rules(v)[r].hit}
FirstReason(v) ==
    IF Hits(v) = {} THEN NoStr
    ELSE Rules(v)[CHOOSE r \in Hits(v) : \A q \in Hits(v) : r <= q].reason
JustCollected == rpc = "only"
C15_FirstRuleWins ==
    JustCollected => \A i \in 1..Len(vols) : vols[i].skip_reason = FirstReason(vols[i])
\* One volume matches the encryption rule and the size rule and carries
\* "encrypted", another matches nothing.
C15_Witness ==
    /\ JustCollected
    /\ \E i \in 1..Len(vols) : /\ Hits(vols[i]) = {4, 5}
                               /\ vols[i].skip_reason = <<"encrypted">>
    /\ \E i \in 1..Len(vols) : Hits(vols[i]) = {} /\ vols[i].skip_reason = NoStr

\* C16: a skip reason, once set, is never cleared or replaced; the --only
\* pass gives not_in_only to the eligible volumes outside the set and leaves
\* the eligible ones inside it eligible; no other step changes the volumes.
C16_ReasonsMonotonic ==
    [][vols # <<>> =>
          /\ Len(vols') = Len(vols)
          /\ \A i \in 1..Len(vols) :
                LET a == vols[i]
                    b == vols'[i]
                IN /\ a.skip_reason # NoStr => b = a
                   /\ (a.skip_reason = NoStr /\ rpc = "only" /\ args.only # {}) =>
                          b = [a EXCEPT !.skip_reason =
                                  IF a.path \in args.only THEN NoStr
                                  ELSE <<"not_in_only">>]
                   /\ ~(rpc = "only" /\ args.only # {}) => b = a]_vars
\* After the pass: one volume kept its earlier reason, one became
\* not_in_only, one stayed eligible.
C16_Witness ==
    /\ rpc = "select" /\ args.only # {}
    /\ \E i \in 1..Len(vols) : vols[i].skip_reason = <<"not_in_only">>
    /\ \E i \in 1..Len(vols) : vols[i].skip_reason \notin {NoStr, <<"not_in_only">>}
    /\ \E i \in 1..Len(vols) : vols[i].skip_reason = NoStr

\* The filesystem types mount_ro has a mount command for, and the volumes it
\* declines by policy: a type outside the table, the pool-based family (zfs),
\* or apfs without its user-space bridge.
Mountable == {"ext2", "ext3", "ext4", "xfs", "btrfs", "ntfs", "vfat", "exfat",
              "hfs", "hfsplus", "apfs"}
InTable(fs) == fs \in Mountable \cup {"zfs"}
PolicySkip(fs) == fs \notin Mountable \/ (fs = "apfs" /\ ~host.apfs_fuse)
MountReturned(i, out) == tasks[i].pc = "umount" /\ Did(i, "mount_ro", out)

\* C17: for a filesystem type absent from the recipe table mount_ro returns
\* failure having neither created the mountpoint directory nor issued a mount
\* command.
C17_UnsupportedLeavesNothing ==
    \A i \in TaskIds :
        ~InTable(Vol(i).fstype) =>
            /\ ~Did(i, "mount_ro", "ok")
            /\ (MountReturned(i, "fail") =>
                   /\ MountPoint(tasks[i].name) \notin dirs
                   /\ \A c \in cmds : c.src # Vol(i).path)

\* C18: a volume mount_ro declines by policy (no recipe, missing bridge, or
\* the pool-based family) is not recorded as a per-volume failure, and does
\* not make the run fail.
C18_PolicySkipIsNoFailure ==
    /\ \A k \in 1..Len(results) :
          PolicySkip(results[k].fstype) => results[k].status # "mount_failed"
    /\ LET OnlyPolicySkips ==
               \A k \in 1..Len(results) :
                   \/ results[k].status = "ok"
                   \/ results[k].status = "mount_failed" /\ PolicySkip(results[k].fstype)
       IN (rpc = "returned" /\ results # <<>> /\ OnlyPolicySkips) => rc = 0

\* C19: every mount command mount_ro issues, the fuse-backed ones included,
\* carries nodev, nosuid and noexec.
C19_MountsRestricted ==
    \A c \in cmds :
        \A o \in {"nodev", "nosuid", "noexec"} : \E k \in 1..Len(c.opts) : c.opts[k] = o

\* C20: if lsblk fails or its output is malformed, the run ends with exit
\* code 1 and no volume is ever submitted, mounted, archived or transferred.
ListingUnusable == lsblk.rc # 0 \/ ~lsblk.json
C20_ListingFailureAborts ==
    ListingUnusable =>
        /\ rpc \in {"start", "discover", "returned", "raised"}
        /\ vols = <<>> /\ to_process = <<>> /\ tasks = <<>> /\ results = <<>>
        /\ cmds = {} /\ dirs = {} /\ mounts = <<>> /\ summary = <<>>
        /\ (rpc \in {"returned", "raised"} => MainExit = 1)
\* The listing was asked for with --list and lsblk's output was not JSON.
C20_Witness ==
    /\ lsblk.rc = 0 /\ ~lsblk.json /\ args.list_only
    /\ rpc = "raised" /\ MainExit = 1

\* C21: when the run is interrupted while tasks are in flight, the process
\* ends only after every task is over, each task that began its mount stage
\* has made its one umount call, and the exit code is 130.
C21_InterruptStillCleansUp ==
    /\ rpc = "interrupted" => MainExit = -1
    /\ rpc = "aborted" =>
          /\ MainExit = 130
          /\ \A i \in TaskIds :
                /\ tasks[i].pc = "done"
                /\ EnteredTry(i) => /\ Count(i, "umount") = 1
                                    /\ tasks[i].log[Len(tasks[i].log)].op = "umount"
\* An interrupted run of several tasks has ended: each task mounted its
\* volume and made its umount call, and no result was collected.
C21_Witness ==
    /\ rpc = "aborted" /\ Len(tasks) > 1
    /\ \A i \in TaskIds : Did(i, "mount_ro", "ok") /\ Count(i, "umount") = 1
    /\ results = <<>>

\* C22: never more tasks in progress than the worker count; the summary is
\* written only when every submitted task is over; the result list and the
\* summary change only in steps of the orchestrator, never in a task's step.
InProgress == {i \in TaskIds : Running(i)}
C22_BoundedPoolSingleWriter ==
    /\ [](/\ Cardinality(InProgress) <= workers
          /\ (summary # <<>> => \A i \in TaskIds : tasks[i].pc = "done"))
    /\ [][(results' # results \/ summary' # summary) => tasks' = tasks]_vars
\* The pool is full: as many tasks in progress as there are workers, and a
\* submitted task waits.
C22_Witness ==
    /\ workers > 0 /\ Cardinality(InProgress) = workers
    /\ \E i \in TaskIds : tasks[i].pc = "queued"

\* C23: the eligible volumes are submitted in non-increasing order of size
\* and started in submission order: no task is started while the task of a
\* strictly larger eligible volume has not been.
Started(i) == tasks[i].pc # "queued"
C23_LargestFirst ==
    /\ \A i, j \in 1..Len(to_process) :
          i < j => to_process[i].size_bytes >= to_process[j].size_bytes
    /\ \A i, j \in TaskIds :
          (Vol(i).size_bytes > Vol(j).size_bytes /\ Started(j)) => Started(i)
    /\ (Processing =>
          /\ Len(tasks) = Len(to_process)
          /\ Len(to_process) = Len(Eligible(vols))
          /\ \A k \in 1..Len(vols) :
                vols[k].skip_reason = NoStr =>
                    \E i \in 1..Len(to_process) : to_process[i] = vols[k])
\* The volume discovered second is the larger one: it was submitted first
\* and is in progress while the smaller one waits.
C23_Witness ==
    /\ Len(tasks) = 2 /\ workers = 1
    /\ Vol(1).path = NodePath("sdb1") /\ Vol(2).path = NodePath("sda1")
    /\ Vol(1).size_bytes > Vol(2).size_bytes
    /\ Running(1) /\ ~Started(2)

\* C24: with chunking off, a successful build that is not dry leaves exactly
\* one archive file, one whole-stream checksum file, a chunk list whose only
\* entry names the archive, and a manifest whose whole-stream checksum is the
\* archive's.
BuiltUnchunked == mc.pc = "done" /\ mc.ret = "True" /\ ~Chunked /\ ~args.dry
C24_UnchunkedBuild ==
    BuiltUnchunked =>
        /\ DOMAIN outdir = {ArchiveName, WholeSha, PartsList, ManifestPath}
        /\ outdir[ArchiveName].data = stream
        /\ outdir[PartsList].data = <<ArchiveName>>
        /\ NewManifest
        /\ Len(outdir[ManifestPath].data[1].whole_sha256) = 1
        /\ outdir[ManifestPath].data[1].whole_sha256[1].hash =
              Digest(outdir[ArchiveName].data)

\* C25: the worker count of a run is the command-line override when there is
\* one, else the configured count when there is one, else half the processing
\* units, and the count used is within [1, 8].
Override == IF args.workers_override # {}
            THEN CHOOSE w \in args.workers_override : TRUE
            ELSE cfg.workers
Wanted == IF Override > 0 THEN Override ELSE host.cpu \div 2
C25_WorkerCount ==
    Processing => workers = clamp(1, Wanted, MaxWorkers)

\* C26: base36_digest5 returns exactly 5 characters of 0-9a-z whatever the
\* digest, and two derivations with the same date string and the same host
\* identity return the same token.
TokenReturned == tk.pc = "done"
SameInput == /\ TokenReturned /\ tk.prev # <<>>
             /\ tk.prev[1].date = tk.date /\ tk.prev[1].ident = tk.ident
C26_TokenShapeDeterministic ==
    /\ (TokenReturned =>
          /\ Len(tk.token) = 5
          /\ \A k \in 1..Len(tk.token) : \E c \in 1..Len(Chars) : tk.token[k] = Chars[c])
    /\ (SameInput => tk.prev[1].token = tk.token)
\* A token with a character beyond the digits has been derived twice from the
\* same date and identity.
C26_Witness ==
    /\ SameInput
    /\ \E k \in 1..Len(tk.token) : \E c \in 11..Len(Chars) : tk.token[k] = Chars[c]

\* C27: the listing names every directory and symbolic link; with a positive
\* ceiling it names a regular file exactly when the file's size is under the
\* ceiling, with a ceiling of zero or none it names every regular file; every
\* entry of the listing ends in NUL.
Listed(k) == \E j \in 1..Len(fnd.out) : fnd.out[j].entry = k
Ceiling == IF fnd.max_mb = {} THEN 0 ELSE CHOOSE n \in fnd.max_mb : TRUE
C27_ListingContents ==
    fnd.pc = "done" =>
        /\ \A k \in 1..Len(fnd.tree) :
              LET e == fnd.tree[k]
              IN /\ (e.type \in {"d", "l"} => Listed(k))
                 /\ ((e.type = "f" /\ Ceiling > 0) =>
                        (Listed(k) <=> e.size < Ceiling * MiB))
                 /\ ((e.type = "f" /\ Ceiling = 0) => Listed(k))
        /\ \A j \in 1..Len(fnd.out) : fnd.out[j].term = "NUL"

\* C28: no device path occurs twice in the list collect_volumes returns, also
\* when lsblk lists a device under more than one parent, and no two volume
\* tasks of a run are for the same device.
C28_DevicesOnce ==
    /\ \A i, j \in 1..Len(vols) : vols[i].path = vols[j].path => i = j
    /\ \A i, j \in TaskIds : Vol(i).path = Vol(j).path => i = j

\* C29: after two or more volumes have transferred, the remote destination
\* holds each volume's own manifest, chunk list and whole-stream checksum:
\* none is overwritten by another volume's.
Transferred(i) == Did(i, "rsync_dir", "ok") /\ ~args.dry
C29_RemoteMetadataDisjoint ==
    \A i \in TaskIds :
        Transferred(i) =>
            \A f \in MetaFiles :
                /\ Dest \o f \in DOMAIN remote
                /\ remote[Dest \o f] = Vol(i).path

\* C30: when a chunked build that is not dry returns True, every stage having
\* exited 0, the manifest exists and its whole_sha256 is the checksum of the
\* complete compressed stream: the checksum process fed by tee has written
\* its output before make_chunks tests and reads it.
C30_WholeChecksumComplete ==
    (BuiltChunked /\ ~StageFailed) =>
        /\ NewManifest
        /\ outdir[ManifestPath].data[1].whole_sha256 =
              <<Awk1(ShaLine(stream, <<"-">>))>>

\* C31: a successful build into a directory that holds the artifacts of an
\* earlier build of the same name leaves what a build into an empty directory
\* leaves: every file of the directory, which is what rsync transfers, and
\* every file the chunk list names, was written by this build.
Built == mc.pc = "done" /\ mc.ret = "True" /\ ~args.dry
Stale(f) == f \in DOMAIN outdir /\ outdir[f].by = "prev"
C31_RerunLeavesNoStale ==
    Built =>
        /\ \A f \in DOMAIN outdir : ~Stale(f)
        /\ PartsList \in DOMAIN outdir
        /\ \A k \in 1..Len(outdir[PartsList].data) : ~Stale(outdir[PartsList].data[k])

\* C32: on every chain of parent links, cyclic ones and failing lookups
\* included, pk_disk_of returns, having made at most 8 lookups; it returns a
\* device only when the lookup of a device of type disk succeeded within
\* them, and None otherwise.
PkDone == pkd.pc = "done"
DiskReached == pkd.t = "disk" /\ Lookup(pkd.cur).t = "disk"
C32_ParentWalkBounded ==
    /\ [](pkd.i <= HopLimit)
    /\ [](PkDone => (pkd.ret # None <=> DiskReached))
    /\ <>PkDone
\* The loop ran out of turns one device short of the disk of a chain longer
\* than it, and returned None.
C32_Witness ==
    /\ PkDone /\ pkd.i = HopLimit /\ pkd.ret = None
    /\ links.end = "disk" /\ links.len = HopLimit + 1 /\ pkd.cur = links.len

\* C33: a node of the device tree yields a Volume candidate exactly when it
\* is a partition, a RAID, LVM or crypt volume, or a whole disk with a
\* filesystem on it, at any depth of the tree.
RaidTypes == {"raid0", "raid1", "raid4", "raid5", "raid6", "raid10"}
Consumable(n) ==
    \/ NodeType[n] \in {"part", "lvm", "crypt"} \cup RaidTypes
    \/ NodeType[n] = "disk" /\ lsblk.fstype[n] # ""
Candidate(n) == \E k \in 1..Len(vols) : vols[k].path = NodePath(n)
C33_CandidatesAreConsumable ==
    JustCollected => \A n \in Nodes : Consumable(n) <=> Candidate(n)
====
